---- MODULE Spec2Model ----
(***************************************************************************)
(* A model of the property search core of AI-RealEstate-Agent:             *)
(*   - RealEstateApiClient (src/unnamed/part_007, lines 435-1183): the     *)
(*     cache, the provider fan-out, the synthetic generator;               *)
(*   - PropertyService (src/src/services/propertyService.ts): scoring and  *)
(*     ranking.                                                            *)
(* Strings are sequences of UTF-16 code units, so that toLowerCase, sort,  *)
(* includes and join are computed and not assumed.  A JavaScript number    *)
(* that can be NaN or -Infinity is a record [kind, v].                     *)
(***************************************************************************)
EXTENDS Integers, Sequences, FiniteSets, TLC

VARIABLES
    config,     \* the Config singleton read by the client (fixed at start-up)
    cache,      \* RealEstateApiClient.cache: a Map, kept in insertion order
    now,        \* Date.now(), in seconds
    calls,      \* one record per caller of searchProperties: the call in flight
    lastCall,   \* history: the call that ended last
    tracked,    \* history: the first call that ended with a result
    started,    \* history: how many calls of searchProperties began
    lastWrite,  \* history: what the last addToCache did
    svcIn,      \* PropertyService: the inputs of the call under test
    svcOut      \* PropertyService: the result of the call under test

vars == <<config, cache, now, calls, lastCall, tracked, started, lastWrite, svcIn, svcOut>>

-----------------------------------------------------------------------------
(* Strings *)

\* string literals, as code units
s_space == <<32>>  \* " "
s_hash == <<35>>  \* "#"
s_comma == <<44>>  \* ","
s_C_Unit_ == <<44, 32, 85, 110, 105, 116, 32>>  \* ", Unit "
s_minus == <<45>>  \* "-"
s_90000 == <<57, 48, 48, 48, 48>>  \* "90000"
s_any == <<97, 110, 121>>  \* "any"
s_apartment == <<97, 112, 97, 114, 116, 109, 101, 110, 116>>  \* "apartment"
s_Apartments == <<65, 112, 97, 114, 116, 109, 101, 110, 116, 115>>  \* "Apartments"
s_apt == <<97, 112, 116>>  \* "apt"
s_apt_ == <<97, 112, 116, 32>>  \* "apt "
s_Balcony == <<66, 97, 108, 99, 111, 110, 121>>  \* "Balcony"
s_Bike_storage == <<66, 105, 107, 101, 32, 115, 116, 111, 114, 97, 103, 101>>  \* "Bike storage"
s_buy == <<98, 117, 121>>  \* "buy"
s_Cedar_Blvd == <<67, 101, 100, 97, 114, 32, 66, 108, 118, 100>>  \* "Cedar Blvd"
s_Columbus == <<67, 111, 108, 117, 109, 98, 117, 115>>  \* "Columbus"
s_columbus == <<99, 111, 108, 117, 109, 98, 117, 115>>  \* "columbus"
s_concierge == <<99, 111, 110, 99, 105, 101, 114, 103, 101>>  \* "concierge"
s_Concierge == <<67, 111, 110, 99, 105, 101, 114, 103, 101>>  \* "Concierge"
s_condo == <<99, 111, 110, 100, 111>>  \* "condo"
s_condominium == <<99, 111, 110, 100, 111, 109, 105, 110, 105, 117, 109>>  \* "condominium"
s_Condos == <<67, 111, 110, 100, 111, 115>>  \* "Condos"
s_doorman == <<100, 111, 111, 114, 109, 97, 110>>  \* "doorman"
s_Doorman == <<68, 111, 111, 114, 109, 97, 110>>  \* "Doorman"
s_Elevator == <<69, 108, 101, 118, 97, 116, 111, 114>>  \* "Elevator"
s_Elm_Dr == <<69, 108, 109, 32, 68, 114>>  \* "Elm Dr"
s_Fireplace == <<70, 105, 114, 101, 112, 108, 97, 99, 101>>  \* "Fireplace"
s_garage == <<103, 97, 114, 97, 103, 101>>  \* "garage"
s_Garage == <<71, 97, 114, 97, 103, 101>>  \* "Garage"
s_Garden == <<71, 97, 114, 100, 101, 110>>  \* "Garden"
s_gym == <<103, 121, 109>>  \* "gym"
s_Gym == <<71, 121, 109>>  \* "Gym"
s_Hardwood_floors == <<72, 97, 114, 100, 119, 111, 111, 100, 32, 102, 108, 111, 111, 114, 115>>  \* "Hardwood floors"
s_house == <<104, 111, 117, 115, 101>>  \* "house"
s_Houses == <<72, 111, 117, 115, 101, 115>>  \* "Houses"
s_InDunit_laundry == <<73, 110, 45, 117, 110, 105, 116, 32, 108, 97, 117, 110, 100, 114, 121>>  \* "In-unit laundry"
s_Main_St == <<77, 97, 105, 110, 32, 83, 116>>  \* "Main St"
s_Maple_Ln == <<77, 97, 112, 108, 101, 32, 76, 110>>  \* "Maple Ln"
s_multiDfamily == <<109, 117, 108, 116, 105, 45, 102, 97, 109, 105, 108, 121>>  \* "multi-family"
s_multifamily == <<109, 117, 108, 116, 105, 102, 97, 109, 105, 108, 121>>  \* "multifamily"
s_Oak_Ave == <<79, 97, 107, 32, 65, 118, 101>>  \* "Oak Ave"
s_OH == <<79, 72>>  \* "OH"
s_Park_Way == <<80, 97, 114, 107, 32, 87, 97, 121>>  \* "Park Way"
s_PetDfriendly == <<80, 101, 116, 45, 102, 114, 105, 101, 110, 100, 108, 121>>  \* "Pet-friendly"
s_Pine_Rd == <<80, 105, 110, 101, 32, 82, 100>>  \* "Pine Rd"
s_pool == <<112, 111, 111, 108>>  \* "pool"
s_Pool == <<80, 111, 111, 108>>  \* "Pool"
s_rent == <<114, 101, 110, 116>>  \* "rent"
s_residential == <<114, 101, 115, 105, 100, 101, 110, 116, 105, 97, 108>>  \* "residential"
s_rooftop == <<114, 111, 111, 102, 116, 111, 112>>  \* "rooftop"
s_Rooftop_deck == <<82, 111, 111, 102, 116, 111, 112, 32, 100, 101, 99, 107>>  \* "Rooftop deck"
s_sfr == <<115, 102, 114>>  \* "sfr"
s_single_family == <<115, 105, 110, 103, 108, 101, 32, 102, 97, 109, 105, 108, 121>>  \* "single family"
s_single_family_residence == <<115, 105, 110, 103, 108, 101, 32, 102, 97, 109, 105, 108, 121, 32, 114, 101, 115, 105, 100, 101, 110, 99, 101>>  \* "single family residence"
s_Single_family_residence == <<83, 105, 110, 103, 108, 101, 32, 102, 97, 109, 105, 108, 121, 32, 114, 101, 115, 105, 100, 101, 110, 99, 101>>  \* "Single family residence"
s_singleDfamily == <<115, 105, 110, 103, 108, 101, 45, 102, 97, 109, 105, 108, 121>>  \* "single-family"
s_singleUfamily == <<115, 105, 110, 103, 108, 101, 95, 102, 97, 109, 105, 108, 121>>  \* "single_family"
s_Storage == <<83, 116, 111, 114, 97, 103, 101>>  \* "Storage"
s_townhome == <<116, 111, 119, 110, 104, 111, 109, 101>>  \* "townhome"
s_townhouse == <<116, 111, 119, 110, 104, 111, 117, 115, 101>>  \* "townhouse"
s_Townhouses == <<84, 111, 119, 110, 104, 111, 117, 115, 101, 115>>  \* "Townhouses"
s_unit_ == <<117, 110, 105, 116, 32>>  \* "unit "
s_bar == <<124>>  \* "|"


ToLowerCh(ch) == IF ch >= 65 /\ ch <= 90 THEN ch + 32 ELSE ch

ToLower(s) == [i \in 1..Len(s) |-> ToLowerCh(s[i])]

Includes(s, sub) ==
    \E i \in 0..(Len(s) - Len(sub)) : SubSeq(s, i + 1, i + Len(sub)) = sub

\* the comparison of Array.prototype.sort() without a comparator: code units
RECURSIVE StrLess(_, _)
StrLess(a, b) ==
    IF b = <<>> THEN FALSE
    ELSE IF a = <<>> THEN TRUE
    ELSE IF a[1] # b[1] THEN a[1] < b[1]
    ELSE StrLess(Tail(a), Tail(b))

RECURSIVE InsertSorted(_, _)
InsertSorted(sorted, s) ==
    IF sorted = <<>> THEN <<s>>
    ELSE IF StrLess(s, sorted[1]) THEN <<s>> \o sorted
    ELSE <<sorted[1]>> \o InsertSorted(Tail(sorted), s)

RECURSIVE SortStrings(_)
SortStrings(ss) ==
    IF ss = <<>> THEN <<>>
    ELSE InsertSorted(SortStrings(SubSeq(ss, 1, Len(ss) - 1)), ss[Len(ss)])

RECURSIVE Join(_, _)
Join(ss, sep) ==
    IF ss = <<>> THEN <<>>
    ELSE IF Len(ss) = 1 THEN ss[1]
    ELSE ss[1] \o sep \o Join(Tail(ss), sep)

RECURSIVE NumToStr(_)
NumToStr(n) ==
    IF n < 0 THEN s_minus \o NumToStr(0 - n)
    ELSE IF n < 10 THEN <<48 + n>>
    ELSE NumToStr(n \div 10) \o <<48 + (n % 10)>>

RECURSIVE SelectSeqIdx(_, _, _)
SelectSeqIdx(s, Keep(_), i) ==
    IF i > Len(s) THEN <<>>
    ELSE (IF Keep(s[i]) THEN <<s[i]>> ELSE <<>>) \o SelectSeqIdx(s, Keep, i + 1)

Filter(s, Keep(_)) == SelectSeqIdx(s, Keep, 1)

Range(s) == {s[i] : i \in 1..Len(s)}

-----------------------------------------------------------------------------
(* src/src/types/property.ts *)

\* an optional field that is absent (minPrice?: number)
Undefined == 0 - 1

\* JavaScript truthiness of an optional number: undefined and 0 are falsy
Truthy(n) == n # Undefined /\ n # 0

ListingType == {"rent", "buy", "any"}

PropertyType == {"house", "apartment", "condo", "townhouse", "any"}

\* the string value of an enum member
EnumStr(e) ==
    CASE e = "rent" -> s_rent
      [] e = "buy" -> s_buy
      [] e = "any" -> s_any
      [] e = "house" -> s_house
      [] e = "apartment" -> s_apartment
      [] e = "condo" -> s_condo
      [] e = "townhouse" -> s_townhouse

-----------------------------------------------------------------------------
(* PropertyService: the score *)

Num(v) == [kind |-> "num", v |-> v]
NaN == [kind |-> "NaN", v |-> 0]
NegInfinity == [kind |-> "-Infinity", v |-> 0]

\* one day; the model counts time in seconds (the code in milliseconds)
DAY == 86400

Abs(x) == IF x < 0 THEN 0 - x ELSE x
Max2(a, b) == IF a > b THEN a ELSE b
Min2(a, b) == IF a < b THEN a ELSE b

\* calculatePriceScore, the branch with one bound: the tier of price / maxPrice
PriceTier(p, c) ==
    IF 10 * p.price <= 8 * c.maxPrice THEN 15
    ELSE IF 100 * p.price <= 95 * c.maxPrice THEN 10
    ELSE 5

\* calculatePriceScore with both bounds, as the fraction num / den:
\* (1 - |price - mid| / max(mid - min, max - mid)) * 25, with everything doubled
PriceFraction(p, c) ==
    LET dist2 == Abs(2 * p.price - (c.minPrice + c.maxPrice))
        maxDist2 == c.maxPrice - c.minPrice
    IN  [num |-> 25 * (maxDist2 - dist2), den |-> maxDist2, dist |-> dist2]

\* a feature of the property matches when it contains, or is contained in,
\* a requested feature, case folded
FeatureMatches(feature, c) ==
    \E i \in 1..Len(c.features) :
        \/ Includes(ToLower(feature), ToLower(c.features[i]))
        \/ Includes(ToLower(c.features[i]), ToLower(feature))

MatchingFeatures(p, c) == LET Keep(f) == FeatureMatches(f, c) IN Filter(p.features, Keep)

premiumFeatures ==
    << s_pool, s_gym,
       s_concierge,
       s_doorman,
       s_rooftop,
       s_garage >>

PremiumMatches(p) ==
    LET Keep(f) == \E i \in 1..Len(premiumFeatures) : Includes(ToLower(f), premiumFeatures[i])
    IN  Len(Filter(p.features, Keep))

\* calculateFeatureScore without the premium bonus, as the fraction num / den
BaseFeatureFraction(p, c) ==
    [num |-> 15 * Len(MatchingFeatures(p, c)), den |-> Max2(Len(c.features), 1)]

calculateSizeScore(p, c) ==
    (IF Truthy(c.bedrooms)
     THEN IF p.bedrooms = c.bedrooms THEN 8
          ELSE IF p.bedrooms = c.bedrooms + 1 THEN 6
          ELSE IF p.bedrooms > c.bedrooms THEN 3
          ELSE 0
     ELSE 0)
    + (IF Truthy(c.bathrooms) /\ p.bathrooms >= c.bathrooms
       THEN Min2((p.bathrooms - c.bathrooms + 1) * 3, 8)
       ELSE 0)

IsDigit(ch) == ch >= 48 /\ ch <= 57

\* parseInt(zipCode.slice(-2)) < 20; parseInt of a string that does not start
\* with a digit (after blanks and a sign) is NaN, and NaN < 20 is false
LastTwoBelow20(zip) ==
    LET two == SubSeq(zip, Max2(1, Len(zip) - 1), Len(zip))
        body == IF two # <<>> /\ two[1] = 32 THEN Tail(two) ELSE two
        neg == body # <<>> /\ body[1] = 45
        digits == IF body # <<>> /\ body[1] \in {43, 45} THEN Tail(body) ELSE body
    IN  /\ digits # <<>>
        /\ IsDigit(digits[1])
        /\ \/ neg
           \/ Len(digits) = 1
           \/ ~IsDigit(digits[2])
           \/ (digits[1] - 48) * 10 + (digits[2] - 48) < 20

calculateLocationScore(p, c) ==
    5 + (IF p.zipCode # <<>> /\ LastTwoBelow20(p.zipCode) THEN 3 ELSE 0)

calculateFreshnessScore(p, clock) ==
    LET age == clock - p.dateAdded
    IN  IF age < 1 * DAY THEN 12
        ELSE IF age < 3 * DAY THEN 10
        ELSE IF age < 7 * DAY THEN 8
        ELSE IF age < 14 * DAY THEN 6
        ELSE IF age < 30 * DAY THEN 4
        ELSE IF age < 60 * DAY THEN 2
        ELSE 0

\* valueRatio = avgPricePerSqFt / (price / squareFootage), avg = 2 (rent) or 150;
\* a price of 0 makes the ratio Infinity
calculateValueScore(p) ==
    IF ~Truthy(p.squareFootage) THEN 0
    ELSE LET avg == IF p.listingType = "rent" THEN 2 ELSE 150
             lhs == avg * p.squareFootage
         IN  IF p.price = 0 THEN 8
             ELSE IF 10 * lhs > 12 * p.price THEN 8
             ELSE IF 10 * lhs > 11 * p.price THEN 6
             ELSE IF lhs > p.price THEN 4
             ELSE IF 10 * lhs > 9 * p.price THEN 2
             ELSE 0

\* Math.round(Math.min(num / den, 100)) for den > 0; Math.round rounds a half up
RoundCapped(num, den) ==
    IF num > 100 * den THEN 100 ELSE (2 * num + den) \div (2 * den)

calculateScore(p, c, clock) ==
    LET whole == 50 + calculateSizeScore(p, c) + calculateLocationScore(p, c)
                 + calculateFreshnessScore(p, clock) + calculateValueScore(p)
                 + 2 * PremiumMatches(p)
        feat == BaseFeatureFraction(p, c)
    IN  IF Truthy(c.minPrice) /\ Truthy(c.maxPrice)
        THEN LET pf == PriceFraction(p, c)
             IN  IF pf.den = 0
                 THEN IF pf.dist = 0 THEN NaN ELSE NegInfinity
                 ELSE LET sgn == IF pf.den < 0 THEN 0 - 1 ELSE 1
                          den == sgn * pf.den * feat.den
                          num == whole * den + sgn * pf.num * feat.den
                                 + feat.num * sgn * pf.den
                      IN  Num(RoundCapped(num, den))
        ELSE LET tier == IF Truthy(c.maxPrice) THEN PriceTier(p, c) ELSE 0
             IN  Num(RoundCapped((whole + tier) * feat.den + feat.num, feat.den))

-----------------------------------------------------------------------------
(* Config (src/unnamed/part_009) *)

hasValidApifyConfig == config.apifyToken

hasValidZillowConfig == config.zillowKey

\* hasValidRentberryConfig() || hasValidRentalsConfig(): keys of providers that
\* searchProperties never calls
hasValidOtherConfig == config.otherKey

hasAnyValidApiConfig == hasValidApifyConfig \/ hasValidZillowConfig \/ hasValidOtherConfig

\* strict mode never taken into account
strictModeIgnored == FALSE

shouldUseStrictMode == config.strictApiMode /\ hasAnyValidApiConfig

-----------------------------------------------------------------------------
(* RealEstateApiClient: the cache *)

\* 10 minutes, in seconds
CACHE_TTL == 600

\* The program's capacity is 100 (part_007 line 451); the model runs the same
\* code with a capacity small enough to fill.
MAX_CACHE_SIZE == 2

\* criteria.features.sort(): sorts the caller's array in place
SortedCriteria(c) == [c EXCEPT !.features = SortStrings(c.features)]

OptStr(n) == IF n = Undefined THEN <<>> ELSE NumToStr(n)

generateCacheKey(c) ==
    LET keyParts == << ToLower(c.city), ToLower(c.state),
                       EnumStr(c.listingType), EnumStr(c.propertyType),
                       OptStr(c.minPrice), OptStr(c.maxPrice),
                       OptStr(c.bedrooms), OptStr(c.bathrooms),
                       Join(SortStrings(c.features), s_comma) >>
        NonEmpty(part) == part # <<>>
    IN  Join(Filter(keyParts, NonEmpty), s_bar)

CacheHas(m, key) == \E i \in 1..Len(m) : m[i].key = key

CacheIdx(m, key) == CHOOSE i \in 1..Len(m) : m[i].key = key

\* Map.delete
CacheDelete(m, key) == LET Keep(e) == e.key # key IN Filter(m, Keep)

\* Map.set: a key that is present keeps its place in the iteration order
CacheSet(m, e) ==
    IF CacheHas(m, e.key)
    THEN [m EXCEPT ![CacheIdx(m, e.key)] = e]
    ELSE Append(m, e)

\* getFromCache: the entry is dropped and the read is a miss when
\* now - entry.timestamp > CACHE_TTL
Expired(e, clock) == clock - e.timestamp > CACHE_TTL

\* a read that never finds the entry
getFromCacheMiss(m, key, clock) == [hit |-> FALSE, data |-> <<>>, cache |-> m]

getFromCache(m, key, clock) ==
    IF ~CacheHas(m, key) THEN [hit |-> FALSE, data |-> <<>>, cache |-> m]
    ELSE IF Expired(m[CacheIdx(m, key)], clock)
    THEN [hit |-> FALSE, data |-> <<>>, cache |-> CacheDelete(m, key)]
    ELSE [hit |-> TRUE, data |-> m[CacheIdx(m, key)].data, cache |-> m]

\* addToCache, first half: the entry dropped when the map is full
CacheIsFull(m) == Len(m) >= MAX_CACHE_SIZE

\* a write that never makes room
EvictedNone(m) == <<>>

Evicted(m) == IF CacheIsFull(m) /\ m[1].key # <<>> THEN <<m[1]>> ELSE <<>>

addToCache(m, key, data, clock) ==
    LET room == IF Evicted(m) # <<>> THEN Tail(m) ELSE m
    IN  CacheSet(room, [key |-> key, data |-> data, timestamp |-> clock])

-----------------------------------------------------------------------------
(* RealEstateApiClient: unit type detection and the provider adapters *)

\* `item.home_type || item.propertyType || item.type` is item.typeStr, <<>> when
\* the record carries none
detectPropertyTypeFromScrapedData(item, requestedType) ==
    LET typeStr == ToLower(item.typeStr)
        Has(sub) == Includes(typeStr, sub)
        address == ToLower(item.address)
    IN  IF item.typeStr # <<>> /\ (Has(s_apartment) \/ Has(s_apt) \/ Has(s_multiDfamily) \/ Has(s_multifamily))
        THEN "apartment"
        ELSE IF item.typeStr # <<>>
                /\ (Has(s_house) \/ Has(s_single_family) \/ Has(s_singleDfamily) \/ Has(s_singleUfamily)
                    \/ Has(s_single_family_residence) \/ Has(s_residential) \/ Has(s_sfr))
        THEN "house"
        ELSE IF item.typeStr # <<>> /\ (Has(s_condo) \/ Has(s_condominium))
        THEN "condo"
        ELSE IF item.typeStr # <<>> /\ (Has(s_townhouse) \/ Has(s_townhome))
        THEN "townhouse"
        ELSE IF Includes(address, s_unit_) \/ Includes(address, s_apt_)
                \/ Includes(address, s_hash)
        THEN "apartment"
        ELSE IF requestedType # "any" THEN "house"
        ELSE requestedType

IsWordCh(ch) == IsDigit(ch) \/ (ch >= 65 /\ ch <= 90) \/ (ch >= 97 /\ ch <= 122) \/ ch = 95

\* extractZipFromAddress: the first match of /\b(\d{5})\b/, <<>> when none
ZipStarts(address) ==
    {i \in 1..(Len(address) - 4) :
        /\ \A j \in i..(i + 4) : IsDigit(address[j])
        /\ (i = 1 \/ ~IsWordCh(address[i - 1]))
        /\ (i + 5 > Len(address) \/ ~IsWordCh(address[i + 5]))}

extractZipFromAddress(address) ==
    IF ZipStarts(address) = {} THEN <<>>
    ELSE LET i == CHOOSE k \in ZipStarts(address) : \A m \in ZipStarts(address) : k <= m
         IN  SubSeq(address, i, i + 4)

extractZillowFeatures(item) ==
    (IF "hasGarage" \in item.flags THEN <<s_Garage>> ELSE <<>>)
    \o (IF "hasPool" \in item.flags THEN <<s_Pool>> ELSE <<>>)
    \o (IF "hasPetsAllowed" \in item.flags THEN <<s_PetDfriendly>> ELSE <<>>)
    \o (IF "hasInUnitLaundry" \in item.flags THEN <<s_InDunit_laundry>> ELSE <<>>)

\* getRandomListingType with Math.random() = x / 100
getRandomListingType(x) == IF (x * 2) \div 100 = 0 THEN "rent" ELSE "buy"

\* the filter both transforms end with
TypeMatchesRequest(p, c) == c.propertyType = "any" \/ p.propertyType = c.propertyType

ZillowProperty(item, c, clock, x) ==
    [id |-> <<"zillow", item.zpid>>,
     address |-> item.address,
     zipCode |-> IF extractZipFromAddress(item.address) # <<>>
                 THEN extractZipFromAddress(item.address) ELSE s_90000,
     listingType |-> IF c.listingType = "any" THEN getRandomListingType(x) ELSE c.listingType,
     price |-> item.price,
     bedrooms |-> item.bedrooms,
     bathrooms |-> item.bathrooms,
     squareFootage |-> item.livingArea,
     propertyType |-> detectPropertyTypeFromScrapedData(item, c.propertyType),
     features |-> extractZillowFeatures(item),
     source |-> "Zillow",
     dateAdded |-> clock]

transformZillowResults(props, c, clock, x) ==
    LET mapped == [i \in 1..Len(props) |-> ZillowProperty(props[i], c, clock, x)]
        Keep(p) == TypeMatchesRequest(p, c)
    IN  Filter(mapped, Keep)

\* the scraper's items carry no zip code, feature list or date in the model
ApifyProperty(item, c, clock, x) ==
    [id |-> <<"apify", item.zpid>>,
     address |-> item.address,
     zipCode |-> <<>>,
     listingType |-> IF c.listingType = "any" THEN getRandomListingType(x) ELSE c.listingType,
     price |-> item.price,
     bedrooms |-> item.bedrooms,
     bathrooms |-> item.bathrooms,
     squareFootage |-> item.livingArea,
     propertyType |-> detectPropertyTypeFromScrapedData(item, c.propertyType),
     features |-> <<>>,
     source |-> "Apify",
     dateAdded |-> clock]

transformApifyResults(items, c, clock, x) ==
    LET mapped == [i \in 1..Len(items) |-> ApifyProperty(items[i], c, clock, x)]
        Keep(p) == TypeMatchesRequest(p, c)
    IN  Filter(mapped, Keep)

-----------------------------------------------------------------------------
(* RealEstateApiClient: the synthetic generator.  rnd gives the value of   *)
(* Math.random() at each call site, in hundredths.                         *)

\* Math.floor(Math.random() * n)
RandomBelow(x, n) == (x * n) \div 100

diversityConfigs ==
    << [bedrooms |-> 1, bathrooms |-> 1, priceMultiplier |-> 6, sqftRange |-> <<400, 800>>, featureSet |-> 1],
       [bedrooms |-> 2, bathrooms |-> 1, priceMultiplier |-> 8, sqftRange |-> <<600, 1200>>, featureSet |-> 2],
       [bedrooms |-> 2, bathrooms |-> 2, priceMultiplier |-> 10, sqftRange |-> <<800, 1400>>, featureSet |-> 3],
       [bedrooms |-> 3, bathrooms |-> 2, priceMultiplier |-> 13, sqftRange |-> <<1000, 1800>>, featureSet |-> 4],
       [bedrooms |-> 4, bathrooms |-> 3, priceMultiplier |-> 16, sqftRange |-> <<1400, 2200>>, featureSet |-> 5] >>

featureSets ==
    << << s_InDunit_laundry, s_Balcony, s_PetDfriendly >>,
       << s_Gym, s_Pool, s_Doorman >>,
       << s_Garage, s_Garden, s_Fireplace >>,
       << s_Elevator, s_Rooftop_deck, s_Storage >>,
       << s_Bike_storage, s_Concierge, s_Hardwood_floors >> >>

streets ==
    << s_Main_St,
       s_Oak_Ave,
       s_Pine_Rd,
       s_Elm_Dr,
       s_Maple_Ln,
       s_Cedar_Blvd,
       s_Park_Way >>

propertyTypeToZillowMockType(type, x) ==
    LET options ==
            CASE type = "house" -> << s_Houses, s_Single_family_residence, s_singleDfamily, s_residential >>
              [] type = "apartment" -> << s_Apartments, s_apartment, s_apt >>
              [] type = "condo" -> << s_Condos, s_condominium, s_condo >>
              [] type = "townhouse" -> << s_Townhouses, s_townhome, s_townhouse >>
              [] type = "any" -> << <<>> >>
    IN  options[RandomBelow(x, Len(options)) + 1]

getRandomPropertyType(x) == <<"house", "apartment", "condo", "townhouse">>[RandomBelow(x, 4) + 1]

\* the unit type the generator gives a listing before detection runs on it
MockIntendedType(c, rnd) ==
    IF c.propertyType = "any" THEN getRandomPropertyType(rnd.kind)
    ELSE IF rnd.match > 5 THEN c.propertyType
    ELSE IF c.propertyType = "apartment"
    THEN (IF rnd.noise > 50 THEN "condo" ELSE "townhouse")
    ELSE IF c.propertyType = "house" THEN "townhouse"
    ELSE "house"

\* [...new Set([...a, ...b])]
RECURSIVE Unique(_)
Unique(s) ==
    IF s = <<>> THEN <<>>
    ELSE LET init == Unique(SubSeq(s, 1, Len(s) - 1))
         IN  IF s[Len(s)] \in Range(init) THEN init ELSE Append(init, s[Len(s)])

\* one iteration of the loop, i = 0 .. count - 1: <<>> when the listing is skipped
MockProperty(c, source, rnd, i, clock) ==
    LET cfg == diversityConfigs[(i % 5) + 1]
        basePrice == IF Truthy(c.minPrice) THEN c.minPrice ELSE 200000
        maxPrice == IF Truthy(c.maxPrice) THEN c.maxPrice ELSE 800000
        price0 == ((100 * basePrice + rnd.price * (maxPrice - basePrice)) * cfg.priceMultiplier) \div 1000
        bedrooms == Max2(IF Truthy(c.bedrooms) THEN c.bedrooms ELSE cfg.bedrooms, cfg.bedrooms)
        bathrooms == Max2(IF Truthy(c.bathrooms) THEN c.bathrooms ELSE cfg.bathrooms, cfg.bathrooms)
        propertyType == MockIntendedType(c, rnd)
        actualZillowType == propertyTypeToZillowMockType(propertyType, rnd.ztype)
        streetNumber == RandomBelow(rnd.street, 9999) + 1
        streetName == streets[RandomBelow(rnd.street, 7) + 1]
        squareFootage == RandomBelow(rnd.sqft, cfg.sqftRange[2] - cfg.sqftRange[1]) + cfg.sqftRange[1]
        house == NumToStr(streetNumber) \o s_space \o streetName
        address == IF propertyType = "apartment"
                   THEN house \o s_C_Unit_ \o NumToStr(RandomBelow(rnd.street, 500) + 101)
                   ELSE house
        price == IF propertyType = "apartment" /\ c.listingType = "rent"
                 THEN (price0 * 7) \div 10 ELSE price0
        detectedType == detectPropertyTypeFromScrapedData(
                            [typeStr |-> actualZillowType, address |-> address], c.propertyType)
    IN  IF c.propertyType # "any" /\ detectedType # c.propertyType THEN <<>>
        ELSE << [id |-> <<source, i + 1>>,
                 address |-> address,
                 zipCode |-> NumToStr(RandomBelow(rnd.zip, 90000) + 10000),
                 listingType |-> IF c.listingType = "any"
                                 THEN getRandomListingType(rnd.listing) ELSE c.listingType,
                 price |-> price,
                 bedrooms |-> bedrooms,
                 bathrooms |-> bathrooms,
                 squareFootage |-> squareFootage,
                 propertyType |-> detectedType,
                 features |-> Unique(c.features \o featureSets[cfg.featureSet]),
                 source |-> source,
                 dateAdded |-> clock - (rnd.age * 30 * DAY) \div 100] >>

RECURSIVE MockLoop(_, _, _, _, _, _)
MockLoop(c, source, rnd, i, count, clock) ==
    IF i >= count THEN <<>>
    ELSE MockProperty(c, source, rnd, i, clock) \o MockLoop(c, source, rnd, i + 1, count, clock)

generateMockProperties(c, source, rnd, clock) ==
    MockLoop(c, source, rnd, 0, RandomBelow(rnd.count, 15) + 5, clock)

-----------------------------------------------------------------------------
(* Inputs of the model *)

\* calls of searchProperties followed under Spec, and under SpecCache
MaxCalls == 1
MaxCacheCalls == 3
\* items in one provider response
MaxItems == 1
\* cache lifetimes the clock runs through
MaxClockSpans == 1

Callers == {1, 2}

s_12_Main_St == <<49, 50, 32, 77, 97, 105, 110, 32, 83, 116>>  \* "12 Main St"

critA ==
    [city |-> s_Columbus, state |-> s_OH, listingType |-> "buy", propertyType |-> "any",
     minPrice |-> Undefined, maxPrice |-> 500000, bedrooms |-> 3, bathrooms |-> Undefined,
     features |-> <<s_Pool, s_gym>>]

\* critA with the city in another case and the features in another order
critB == [critA EXCEPT !.city = s_columbus, !.features = <<s_gym, s_Pool>>]

\* critA with a feature in another case
critC == [critA EXCEPT !.features = <<s_pool, s_gym>>]

critD ==
    [city |-> s_Columbus, state |-> <<>>, listingType |-> "rent", propertyType |-> "townhouse",
     minPrice |-> Undefined, maxPrice |-> Undefined, bedrooms |-> Undefined,
     bathrooms |-> Undefined, features |-> <<>>]

CriteriaSet == {critA, critD}

CacheCriteria == {critA, critC, critD}

\* what a provider can answer: a record with no explicit type
rawPlain ==
    [zpid |-> 1, address |-> s_12_Main_St, typeStr |-> <<>>, price |-> 300000,
     bedrooms |-> 3, bathrooms |-> 2, livingArea |-> 1500, flags |-> {"hasPool"}]

RawItems == {rawPlain}

RECURSIVE SeqsUpTo(_, _)
SeqsUpTo(S, n) ==
    IF n = 0 THEN {<<>>}
    ELSE LET shorter == SeqsUpTo(S, n - 1)
         IN  shorter \cup {Append(s, e) : s \in {q \in shorter : Len(q) = n - 1}, e \in S}

Responses == SeqsUpTo(RawItems, MaxItems)

\* the values of Math.random() in one run of the generator, in hundredths
Draw(match, ztype, other) ==
    [count |-> 0, match |-> match, noise |-> other, kind |-> other, ztype |-> ztype,
     price |-> other, sqft |-> other, street |-> other, zip |-> other,
     listing |-> other, age |-> other]

MockDraws == {Draw(99, 0, 0), Draw(99, 50, 50)}

\* The environments the client is started in.  Two kinds of environment are
\* left out, each behaving as one that is kept: with USE_MOCK_DATA set, the
\* keys change nothing but a log line (one set of keys is kept), and a key of
\* a provider that is never called changes nothing once Apify or Zillow has one.
Configs ==
    {cf \in [useMockData : BOOLEAN, strictApiMode : BOOLEAN,
             apifyToken : BOOLEAN, zillowKey : BOOLEAN, otherKey : BOOLEAN] :
        /\ cf.otherKey => ~cf.apifyToken /\ ~cf.zillowKey
        /\ cf.useMockData => ~cf.apifyToken /\ cf.zillowKey}

-----------------------------------------------------------------------------
(* RealEstateApiClient.searchProperties *)

NoSlot == [st |-> "none", http |-> "none", val |-> <<>>]

PendingSlot == [NoSlot EXCEPT !.st = "pending"]

IdleCall ==
    [pc |-> "idle", criteria |-> critD, key |-> <<>>, at |-> 0,
     hit |-> FALSE, fanout |-> FALSE, readAge |-> Undefined, prior |-> FALSE, live |-> FALSE,
     apify |-> NoSlot, zillow |-> NoSlot, order |-> <<>>, polls |-> 0, mock |-> FALSE, wrote |-> FALSE,
     result |-> <<>>, error |-> "none"]

NoTracked == [has |-> FALSE, key |-> <<>>, data |-> <<>>, at |-> 0]

NoWrite == [key |-> <<>>, evicted |-> <<>>, needed |-> FALSE, oldest |-> FALSE]

\* history of one addToCache on map m: the entry it dropped, whether the write
\* of a new key found the map full, whether no entry was written before the
\* dropped one
WriteInfo(m, key) ==
    [key |-> key,
     evicted |-> [i \in 1..Len(Evicted(m)) |->
                    [key |-> Evicted(m)[i].key, timestamp |-> Evicted(m)[i].timestamp]],
     needed |-> ~CacheHas(m, key) /\ CacheIsFull(m),
     oldest |-> \A i \in 1..Len(m) : m[1].timestamp <= m[i].timestamp]

\* the first call to end with a result is remembered
Track(key, data) ==
    IF tracked.has THEN tracked
    ELSE [has |-> TRUE, key |-> key, data |-> data, at |-> now]

\* lines 472-502: the key, the cache read, the mock-data mode, the fan-out
Search(i, c) ==
    /\ calls[i].pc = "idle"
    /\ started' = started + 1
    /\ LET crit == SortedCriteria(c)
           key == generateCacheKey(c)
           read == getFromCache(cache, key, now)
           prior == tracked.has /\ tracked.key = key /\ now - tracked.at < CACHE_TTL
           call == [IdleCall EXCEPT
                      !.criteria = crit, !.key = key, !.at = now,
                      !.hit = read.hit,
                      !.readAge = IF CacheHas(cache, key)
                                  THEN now - cache[CacheIdx(cache, key)].timestamp
                                  ELSE Undefined,
                      !.prior = prior,
                      !.live = /\ prior
                               /\ CacheHas(cache, key)
                               /\ cache[CacheIdx(cache, key)] =
                                     [key |-> key, data |-> tracked.data, timestamp |-> tracked.at]]
       IN  IF read.hit
           THEN /\ lastCall' = [call EXCEPT !.pc = "returned", !.result = read.data]
                /\ cache' = read.cache
                /\ tracked' = Track(key, read.data)
                /\ UNCHANGED <<calls, lastWrite>>
           ELSE IF config.useMockData \/ (~hasAnyValidApiConfig /\ ~shouldUseStrictMode)
           THEN \E rnd \in MockDraws :
                LET mockResults == generateMockProperties(crit, "MockAPI", rnd, now)
                IN  /\ lastCall' = [call EXCEPT !.pc = "returned", !.result = mockResults,
                                                !.mock = TRUE, !.wrote = TRUE]
                    /\ cache' = addToCache(read.cache, key, mockResults, now)
                    /\ lastWrite' = WriteInfo(read.cache, key)
                    /\ tracked' = Track(key, mockResults)
                    /\ UNCHANGED calls
           ELSE /\ calls' = [calls EXCEPT ![i] =
                                [call EXCEPT
                                   !.pc = "awaiting", !.fanout = TRUE,
                                   !.apify = IF hasValidApifyConfig THEN PendingSlot ELSE NoSlot,
                                   !.zillow = IF hasValidZillowConfig THEN PendingSlot ELSE NoSlot]]
                /\ cache' = read.cache
                /\ UNCHANGED <<lastCall, tracked, lastWrite>>
    /\ UNCHANGED <<config, now, svcIn, svcOut>>

\* the provider adapter's catch (lines 641-648, 695-703): the error is rethrown
\* in strict mode, replaced by synthetic listings otherwise
\* a catch that always substitutes synthetic listings
ProviderSwallows(validConfig) == FALSE

ProviderRethrows(validConfig) == config.strictApiMode /\ validConfig

\* searchZillow resolves; order keeps the order in which the provider calls
\* of one fan-out completed
SettleZillow(i, ok, props) ==
    /\ calls[i].pc = "awaiting"
    /\ calls[i].zillow.st = "pending"
    /\ \E rnd \in MockDraws :
         calls' = [calls EXCEPT
                     ![i].zillow =
                        IF ok
                        THEN [st |-> "fulfilled", http |-> "ok",
                              val |-> transformZillowResults(props, calls[i].criteria, now, rnd.listing)]
                        ELSE IF ProviderRethrows(hasValidZillowConfig)
                        THEN [st |-> "rejected", http |-> "fail", val |-> <<>>]
                        ELSE [st |-> "fulfilled", http |-> "fail",
                              val |-> generateMockProperties(calls[i].criteria, "Zillow", rnd, now)],
                     ![i].order = Append(@, "zillow"),
                     ![i].mock = @ \/ (~ok /\ ~ProviderRethrows(hasValidZillowConfig))]
    /\ UNCHANGED <<config, cache, now, lastCall, tracked, started, lastWrite, svcIn, svcOut>>

\* searchApify resolves: the run succeeded and its items were read, or a
\* request failed or the run ended FAILED
SettleApify(i, ok, items) ==
    /\ calls[i].pc = "awaiting"
    /\ calls[i].apify.st = "pending"
    /\ \E rnd \in MockDraws :
         calls' = [calls EXCEPT
                     ![i].apify =
                        IF ok
                        THEN [st |-> "fulfilled", http |-> "ok",
                              val |-> transformApifyResults(items, calls[i].criteria, now, rnd.listing)]
                        ELSE IF ProviderRethrows(hasValidApifyConfig)
                        THEN [st |-> "rejected", http |-> "fail", val |-> <<>>]
                        ELSE [st |-> "fulfilled", http |-> "fail",
                              val |-> generateMockProperties(calls[i].criteria, "Apify", rnd, now)],
                     ![i].order = Append(@, "apify"),
                     ![i].mock = @ \/ (~ok /\ ~ProviderRethrows(hasValidApifyConfig))]
    /\ UNCHANGED <<config, cache, now, lastCall, tracked, started, lastWrite, svcIn, svcOut>>

\* the fulfilled results with Zillow's first
MergedZillowFirst(call) ==
    (IF call.zillow.st = "fulfilled" THEN call.zillow.val ELSE <<>>)
    \o (IF call.apify.st = "fulfilled" THEN call.apify.val ELSE <<>>)

\* the fulfilled results in the order the calls completed
MergedAsCompleted(call) ==
    LET Val(name) == IF name = "apify" THEN call.apify ELSE call.zillow
        F[k \in 0..Len(call.order)] ==
            IF k = 0 THEN <<>>
            ELSE F[k - 1] \o (IF Val(call.order[k]).st = "fulfilled"
                              THEN Val(call.order[k]).val ELSE <<>>)
    IN  F[Len(call.order)]

\* lines 523-529: the fulfilled results, in the order the calls were pushed
Merged(call) ==
    (IF call.apify.st = "fulfilled" THEN call.apify.val ELSE <<>>)
    \o (IF call.zillow.st = "fulfilled" THEN call.zillow.val ELSE <<>>)

\* lines 521-552: after Promise.allSettled; lastCall keeps what the call
\* did, not the order its provider calls completed in
Continue(i) ==
    /\ calls[i].pc = "awaiting"
    /\ calls[i].apify.st # "pending"
    /\ calls[i].zillow.st # "pending"
    /\ LET results == Merged(calls[i])
           key == calls[i].key
       IN  IF results = <<>> /\ shouldUseStrictMode
           THEN /\ lastCall' = [calls[i] EXCEPT !.pc = "threw", !.error = "NoResults",
                                                    !.order = <<>>]
                /\ UNCHANGED <<cache, tracked, lastWrite>>
           ELSE \E rnd \in MockDraws :
                LET data == IF results = <<>>
                            THEN generateMockProperties(calls[i].criteria, "MockAPI", rnd, now)
                            ELSE results
                IN  /\ lastCall' = [calls[i] EXCEPT !.pc = "returned", !.result = data,
                                                    !.wrote = TRUE, !.mock = @ \/ results = <<>>,
                                                    !.order = <<>>]
                    /\ cache' = addToCache(cache, key, data, now)
                    /\ lastWrite' = WriteInfo(cache, key)
                    /\ tracked' = Track(key, data)
    /\ calls' = [calls EXCEPT ![i] = IdleCall]
    /\ UNCHANGED <<config, now, started, svcIn, svcOut>>

\* the instants the clock is read at: the start, and each multiple of the
\* lifetime and the second after it
Instants == {0} \cup {k * CACHE_TTL + e : k \in 1..MaxClockSpans, e \in {0, 1}}

\* time passes between the calls: a call's awaits are short against the lifetime
Tick(t) ==
    /\ \A i \in Callers : calls[i].pc = "idle"
    /\ t > now
    /\ now' = t
    /\ UNCHANGED <<config, cache, calls, lastCall, tracked, started, lastWrite, svcIn, svcOut>>

NoSvc == [op |-> "none"]

InitWith(configs) ==
    /\ config \in configs
    /\ cache = <<>>
    /\ now = 0
    /\ calls = [i \in Callers |-> IdleCall]
    /\ lastCall = IdleCall
    /\ tracked = NoTracked
    /\ started = 0
    /\ lastWrite = NoWrite
    /\ svcIn = NoSvc
    /\ svcOut = NoSvc

Init == InitWith(Configs)

Next ==
    \/ \E i \in Callers, c \in CriteriaSet : started < MaxCalls /\ Search(i, c)
    \/ \E i \in Callers, ok \in BOOLEAN, props \in Responses : SettleZillow(i, ok, props)
    \/ \E i \in Callers, ok \in BOOLEAN, items \in Responses : SettleApify(i, ok, items)
    \/ \E i \in Callers : Continue(i)
    \/ \E t \in Instants : Tick(t)

Spec == Init /\ [][Next]_vars

\* the client as configured by the first configuration module, where only the
\* Zillow provider can be enabled, over three cache keys
CacheConfigs == {cf \in Configs : cf.zillowKey /\ ~cf.apifyToken /\ ~cf.useMockData}

InitCache == InitWith(CacheConfigs)

NextCache ==
    \/ \E i \in Callers, c \in CacheCriteria : started < MaxCacheCalls /\ Search(i, c)
    \/ \E i \in Callers, ok \in BOOLEAN, props \in Responses : SettleZillow(i, ok, props)
    \/ \E i \in Callers : Continue(i)
    \/ \E t \in Instants : Tick(t)

SpecCache == InitCache /\ [][NextCache]_vars

-----------------------------------------------------------------------------
(* PropertyService.rankProperties *)

\* { ...property, score }
WithScore(p, s) ==
    [id |-> p.id, address |-> p.address, zipCode |-> p.zipCode,
     listingType |-> p.listingType, price |-> p.price, bedrooms |-> p.bedrooms,
     bathrooms |-> p.bathrooms, squareFootage |-> p.squareFootage,
     propertyType |-> p.propertyType, features |-> p.features,
     source |-> p.source, dateAdded |-> p.dateAdded, score |-> s]

\* orderBy's order on two scores that are numbers or -Infinity: a before b
\* when its score is higher, or equal and its price lower
RanksBefore(a, b) ==
    LET higher == \/ a.score.kind = "num" /\ b.score.kind = "-Infinity"
                  \/ a.score.kind = "num" /\ b.score.kind = "num" /\ a.score.v > b.score.v
        same == a.score = b.score
    IN  higher \/ (same /\ a.price < b.price)

\* a stable insertion: x goes before the first element it ranks before
InsertRanked(sorted, x) ==
    IF \E i \in 1..Len(sorted) : RanksBefore(x, sorted[i])
    THEN LET at == CHOOSE i \in 1..Len(sorted) :
                      /\ RanksBefore(x, sorted[i])
                      /\ \A j \in 1..(i - 1) : ~RanksBefore(x, sorted[j])
         IN  SubSeq(sorted, 1, at - 1) \o <<x>> \o SubSeq(sorted, at, Len(sorted))
    ELSE Append(sorted, x)

RECURSIVE StableRanked(_)
StableRanked(ps) ==
    IF ps = <<>> THEN <<>>
    ELSE InsertRanked(StableRanked(SubSeq(ps, 1, Len(ps) - 1)), ps[Len(ps)])

\* the orders of a list
Orders(ps) ==
    {[i \in 1..Len(ps) |-> ps[f[i]]] :
        f \in {g \in [1..Len(ps) -> 1..Len(ps)] : \A i, j \in 1..Len(ps) : g[i] = g[j] => i = j}}

\* rankProperties: every property with its score, ordered by orderBy(['score',
\* 'price'], ['desc', 'asc']). lodash compares a NaN as greater than every
\* value, another NaN included, so NaN scores come first under 'desc' and the
\* order of several of them among themselves is left to the engine's sort.
rankProperties(properties, c, clock) ==
    LET scored == [i \in 1..Len(properties) |->
                      WithScore(properties[i], calculateScore(properties[i], c, clock))]
        IsNaN(p) == p.score.kind = "NaN"
        IsNumber(p) == p.score.kind # "NaN"
    IN  {front \o StableRanked(Filter(scored, IsNumber)) :
            front \in Orders(Filter(scored, IsNaN))}

-----------------------------------------------------------------------------
(* The cache: claims C6, C7, C9, C10, checked under SpecCache *)

\* every call the state remembers: those in flight and the one that ended last
Remembered == {calls[i] : i \in Callers} \cup {lastCall}

Ended(call) == call.pc \in {"returned", "threw"}

\* C6, as stated: once a call for criteria c has ended with a result, every
\* later call for c that starts before the lifetime has passed since then is
\* answered from the cache, with no provider call and no generated listing, and
\* returns the listings of that first call in the same order.
C6_LaterCallSameListings ==
    \A call \in Remembered :
        call.pc # "idle" /\ call.prior =>
            /\ call.hit /\ ~call.fanout /\ ~call.mock
            /\ call.pc = "returned" /\ call.result = tracked.data

\* C6, amended: the same, for a later call that starts while the entry the
\* first call wrote is still the cache's entry for c (no write of another call
\* has replaced it and no write to a full cache has dropped it).
C6_LiveEntryAnswers ==
    \A call \in Remembered :
        call.pc # "idle" /\ call.live =>
            /\ call.hit /\ ~call.fanout /\ ~call.mock
            /\ call.pc = "returned" /\ call.result = tracked.data

\* a later call found the first call's entry and returned its listings
C6_Witness ==
    /\ lastCall.live /\ lastCall.hit
    /\ lastCall.result # <<>>
    /\ started > 1

\* C7, as stated: a call that finds an entry for its key is answered from it
\* exactly when the entry's age, now - t, is below the lifetime; at an age of
\* exactly the lifetime the read is a miss.
C7_HitExactlyBelowTTL ==
    \A call \in Remembered :
        call.pc # "idle" /\ call.readAge # Undefined =>
            (call.hit <=> call.readAge < CACHE_TTL)

\* C9: the cache never holds more than MAX_CACHE_SIZE entries.
C9_CacheBounded == Len(cache) <= MAX_CACHE_SIZE

\* the cache is full and the last write dropped an entry to make room
C9_Witness ==
    /\ Len(cache) = MAX_CACHE_SIZE
    /\ lastWrite.evicted # <<>>
    /\ lastWrite.needed

\* C10, as stated: a write drops an entry only when it would otherwise exceed
\* the capacity, and then drops the entry written longest ago.
C10_EvictsOnlyOnOverflow ==
    lastWrite.evicted # <<>> => lastWrite.needed /\ lastWrite.oldest

-----------------------------------------------------------------------------
(* Strict and lenient aggregation: claims C2, C3, C4, C5, checked under Spec *)

Slots(call) == {call.apify, call.zillow}

\* some call of the state generated synthetic listings
Generated == \E call \in Remembered : call.mock

AllEmptyOrFailed(call) ==
    \A s \in Slots(call) : s.st = "none" \/ s.http = "fail" \/ s.val = <<>>

\* the step in which caller i's searchProperties ends after its provider calls
Finishes(i) == calls[i].pc = "awaiting" /\ calls'[i].pc = "idle"

\* C3: in strict mode, a call that found no cache entry and whose provider
\* calls all came back empty or failed ends with the no-results error, returns
\* no list and leaves the cache as it was.
C3_StrictEmptyThrows ==
    [][\A i \in Callers :
          Finishes(i) /\ config.strictApiMode /\ AllEmptyOrFailed(calls[i]) =>
              /\ lastCall'.pc = "threw"
              /\ lastCall'.error = "NoResults"
              /\ lastCall'.result = <<>>
              /\ ~lastCall'.wrote
              /\ cache' = cache]_vars

\* a strict call ended with the error after one provider failed and the other
\* returned an empty list
C3_Witness ==
    /\ config.strictApiMode
    /\ lastCall.pc = "threw" /\ lastCall.error = "NoResults"
    /\ \E s \in Slots(lastCall) : s.http = "fail"
    /\ \E s \in Slots(lastCall) : s.http = "ok" /\ s.val = <<>>

\* C4, as stated: in lenient mode, a call that found no cache entry and whose
\* merged provider result is empty returns a non-empty list.
C4_LenientFallbackNonEmpty ==
    /\ lastCall.pc = "returned" /\ lastCall.fanout
    /\ ~config.strictApiMode
    /\ Merged(lastCall) = <<>>
    => lastCall.result # <<>>

\* one provider call failed and another returned a non-empty list
OneFailedOneSucceeded(call) ==
    /\ \E s \in Slots(call) : s.http = "fail"
    /\ \E s \in Slots(call) : s.http = "ok" /\ s.val # <<>>

\* the lists of the providers that succeeded, Apify's before Zillow's
SucceededLists(call) ==
    (IF call.apify.http = "ok" THEN call.apify.val ELSE <<>>)
    \o (IF call.zillow.http = "ok" THEN call.zillow.val ELSE <<>>)

Contribution(call, slot, source) ==
    IF slot.http = "ok" THEN {slot.val}
    ELSE IF slot.http = "fail"
    THEN {generateMockProperties(call.criteria, source, rnd, call.at) : rnd \in MockDraws}
    ELSE {<<>>}

-----------------------------------------------------------------------------
(* PropertyService used on its own: claim C1, checked under SpecScore *)

\* properties in a list to rank
MaxProps == 2

defaultConfig ==
    [useMockData |-> FALSE, strictApiMode |-> FALSE, apifyToken |-> FALSE,
     zillowKey |-> FALSE, otherKey |-> FALSE]

listing ==
    [id |-> <<"zillow", 1>>, address |-> s_12_Main_St, zipCode |-> s_90000,
     listingType |-> "buy", price |-> 300000, bedrooms |-> 3, bathrooms |-> 2,
     squareFootage |-> 1500, propertyType |-> "house", features |-> <<>>,
     source |-> "Zillow", dateAdded |-> 0]

ScorePrices == {100000, 300000, 900000}

ScoreProperties ==
    {[listing EXCEPT !.price = pr, !.features = fs] :
        pr \in ScorePrices, fs \in {<<>>, <<s_Pool, s_Garage>>}}

\* criteria with no bound, one bound, two bounds, and two equal bounds
ScoreCriteria ==
    {[critA EXCEPT !.minPrice = lo, !.maxPrice = hi] :
        lo \in {Undefined, 200000, 300000}, hi \in {Undefined, 300000, 400000}}

InitService(inputs) ==
    /\ config = defaultConfig
    /\ cache = <<>>
    /\ now \in {0, 45 * DAY}
    /\ calls = [i \in Callers |-> IdleCall]
    /\ lastCall = IdleCall
    /\ tracked = NoTracked
    /\ started = 0
    /\ lastWrite = NoWrite
    /\ svcIn \in inputs
    /\ svcOut = NoSvc

InitScore ==
    InitService([op : {"rank"}, properties : SeqsUpTo(ScoreProperties, MaxProps),
                 criteria : ScoreCriteria])

\* a caller ranks the given list
RankProperties ==
    /\ svcIn.op = "rank"
    /\ svcOut = NoSvc
    /\ \E ranked \in rankProperties(svcIn.properties, svcIn.criteria, now) :
         svcOut' = [op |-> "ranked", list |-> ranked]
    /\ UNCHANGED <<config, cache, now, calls, lastCall, tracked, started, lastWrite, svcIn>>

NextScore == RankProperties

SpecScore == InitScore /\ [][NextScore]_vars

\* C1, as stated: every score attached by rankProperties is an integer from 0
\* to 100, never negative and never a non-number.
C1_ScoreInRange ==
    svcOut.op = "ranked" =>
        \A i \in 1..Len(svcOut.list) :
            /\ svcOut.list[i].score.kind = "num"
            /\ svcOut.list[i].score.v >= 0
            /\ svcOut.list[i].score.v <= 100

-----------------------------------------------------------------------------
(* generateCacheKey used on its own: claim C8, checked under SpecKey *)

\* respellings applied to one criteria
MaxEdits == 2

IsLetter(ch) == (ch >= 65 /\ ch <= 90) \/ (ch >= 97 /\ ch <= 122)

\* the other case of a letter
OtherCase(ch) == IF ch >= 97 THEN ch - 32 ELSE ch + 32

Recased(s, pos) == [s EXCEPT ![pos] = OtherCase(s[pos])]

\* the keys of the two criteria, each computed on a fresh copy
Keys(a, b) == [op |-> "keys", ka |-> generateCacheKey(a), kb |-> generateCacheKey(b)]

InitKey ==
    /\ InitService([op : {"key"}, a : {critA, critB, critD}, b : {critA, critB, critD}, edits : {0}])
    /\ svcIn.a = svcIn.b

\* svcIn.b is respelled into b2 and both keys are computed again
Respell(b2) ==
    /\ svcIn.op = "key"
    /\ svcIn.edits < MaxEdits
    /\ svcIn' = [svcIn EXCEPT !.b = b2, !.edits = @ + 1]
    /\ svcOut' = Keys(svcIn.a, b2)
    /\ UNCHANGED <<config, cache, now, calls, lastCall, tracked, started, lastWrite>>

\* two neighbouring features change places
SwapFeatures(k) ==
    /\ k < Len(svcIn.b.features)
    /\ Respell([svcIn.b EXCEPT !.features =
                   [@ EXCEPT ![k] = svcIn.b.features[k + 1], ![k + 1] = svcIn.b.features[k]]])

\* a letter of the city changes case
RecaseCity(pos) ==
    /\ pos <= Len(svcIn.b.city)
    /\ IsLetter(svcIn.b.city[pos])
    /\ Respell([svcIn.b EXCEPT !.city = Recased(@, pos)])

\* a letter of the state changes case
RecaseState(pos) ==
    /\ pos <= Len(svcIn.b.state)
    /\ IsLetter(svcIn.b.state[pos])
    /\ Respell([svcIn.b EXCEPT !.state = Recased(@, pos)])

\* a letter of a feature changes case
RecaseFeature(k, pos) ==
    /\ k <= Len(svcIn.b.features)
    /\ pos <= Len(svcIn.b.features[k])
    /\ IsLetter(svcIn.b.features[k][pos])
    /\ Respell([svcIn.b EXCEPT !.features[k] = Recased(@, pos)])

Positions == 1..8

NextKey ==
    \/ \E k \in Positions : SwapFeatures(k)
    \/ \E pos \in Positions : RecaseCity(pos)
    \/ \E pos \in Positions : RecaseState(pos)
    \/ \E k \in Positions, pos \in Positions : RecaseFeature(k, pos)

SpecKey == InitKey /\ [][NextKey]_vars

\* C8, as stated: two criteria that differ only in the order of the features
\* and in the letter case of the features, the city and the state have the
\* same key.
C8_RespelledSameKey ==
    svcOut.op = "keys" => svcOut.ka = svcOut.kb

-----------------------------------------------------------------------------
(* PropertyService.deduplicateProperties: claims C12, C13, C14, checked
   under SpecDedup *)

\* the identity key of a listing: `${address.toLowerCase()}-${price}`
DedupKey(p) == ToLower(p.address) \o s_minus \o NumToStr(p.price)

\* a pass that removes one later duplicate and stops
deduplicateOnce(properties) ==
    LET Dup(i) == \E j \in 1..(i - 1) : DedupKey(properties[j]) = DedupKey(properties[i])
        dups == {i \in 1..Len(properties) : Dup(i)}
    IN  IF dups = {} THEN properties
        ELSE LET d == CHOOSE i \in dups : \A k \in dups : i <= k
             IN  SubSeq(properties, 1, d - 1) \o SubSeq(properties, d + 1, Len(properties))

\* a pass that keeps the last record of every key
deduplicateKeepLast(properties) ==
    LET n == Len(properties)
        Last(i) == \A j \in (i + 1)..n : DedupKey(properties[j]) # DedupKey(properties[i])
        F[i \in 1..(n + 1)] ==
            IF i > n THEN <<>>
            ELSE (IF Last(i) THEN <<properties[i]>> ELSE <<>>) \o F[i + 1]
    IN  F[1]

\* lodash uniqBy: the records are visited in order and a record is kept
\* when no earlier record has its key
deduplicateProperties(properties) ==
    LET n == Len(properties)
        First(i) == \A j \in 1..(i - 1) : DedupKey(properties[j]) # DedupKey(properties[i])
        F[i \in 1..(n + 1)] ==
            IF i > n THEN <<>>
            ELSE (IF First(i) THEN <<properties[i]>> ELSE <<>>) \o F[i + 1]
    IN  F[1]

\* the longest list handed to deduplicateProperties
MaxDedupLen == 3

s_12_MAIN_ST == <<49, 50, 32, 77, 65, 73, 78, 32, 83, 84>>  \* "12 MAIN ST"
s__12_Main_St == <<32, 49, 50, 32, 77, 97, 105, 110, 32, 83, 116>>  \* " 12 Main St"

\* one listing seen by two providers, spelled three ways, at two prices
DedupProperties ==
    {[listing EXCEPT !.id = <<src, 1>>, !.address = a, !.price = pr] :
        src \in {"zillow", "apify"},
        a \in {s_12_Main_St, s_12_MAIN_ST, s__12_Main_St},
        pr \in {300000, 400000}}

InitDedup ==
    InitService([op : {"dedup"}, properties : SeqsUpTo(DedupProperties, MaxDedupLen)])

\* a caller deduplicates the given list
Deduplicate ==
    /\ svcIn.op = "dedup"
    /\ svcOut = NoSvc
    /\ svcOut' = [op |-> "deduplicated", passes |-> 1, given |-> svcIn.properties,
                  list |-> deduplicateProperties(svcIn.properties)]
    /\ UNCHANGED <<config, cache, now, calls, lastCall, tracked, started, lastWrite, svcIn>>

\* the caller deduplicates the list it got back
DeduplicateAgain ==
    /\ svcOut.op = "deduplicated"
    /\ svcOut.passes = 1
    /\ svcOut' = [op |-> "deduplicated", passes |-> 2, given |-> svcOut.list,
                  list |-> deduplicateProperties(svcOut.list)]
    /\ UNCHANGED <<config, cache, now, calls, lastCall, tracked, started, lastWrite, svcIn>>

NextDedup == Deduplicate \/ DeduplicateAgain

SpecDedup == InitDedup /\ [][NextDedup]_vars

\* C12: deduplicating a deduplicated list changes nothing, and no pass
\* returns more records than it was given.
C12_IdempotentAndShorter ==
    svcOut.op = "deduplicated" =>
        /\ Len(svcOut.list) <= Len(svcOut.given)
        /\ svcOut.passes = 2 => svcOut.list = svcOut.given

\* a second pass over the result of a pass that did remove records
C12_Witness ==
    /\ svcOut.op = "deduplicated"
    /\ svcOut.passes = 2
    /\ Len(svcOut.given) < Len(svcIn.properties)
    /\ Len(svcOut.given) > 1

\* C13: the result is the input with, for every key, all records but the
\* first one removed: the kept records are the first of their key and stand
\* in the order of the input, and every key of the input is kept once.
C13_KeepsFirstInOrder ==
    svcOut.op = "deduplicated" =>
        LET in == svcOut.given
            out == svcOut.list
        IN  /\ \E f \in [1..Len(out) -> 1..Len(in)] :
                 /\ \A k \in 1..Len(out) : out[k] = in[f[k]]
                 /\ \A k \in 1..(Len(out) - 1) : f[k] < f[k + 1]
                 /\ \A k \in 1..Len(out) :
                        \A j \in 1..(f[k] - 1) : DedupKey(in[j]) # DedupKey(in[f[k]])
            /\ \A i \in 1..Len(in) :
                 Cardinality({k \in 1..Len(out) : DedupKey(out[k]) = DedupKey(in[i])}) = 1

\* two records of one key that are not the same record, with another key
\* between them
C13_Witness ==
    /\ svcOut.op = "deduplicated"
    /\ svcOut.passes = 1
    /\ Len(svcOut.given) = 3
    /\ Len(svcOut.list) = 2
    /\ DedupKey(svcOut.given[1]) = DedupKey(svcOut.given[3])
    /\ svcOut.given[1] # svcOut.given[3]

IsSpace(ch) == ch \in {9, 10, 11, 12, 13, 32}

\* String.prototype.trim
RECURSIVE TrimStart(_)
TrimStart(s) == IF s # <<>> /\ IsSpace(s[1]) THEN TrimStart(Tail(s)) ELSE s

RECURSIVE TrimEnd(_)
TrimEnd(s) ==
    IF s # <<>> /\ IsSpace(s[Len(s)]) THEN TrimEnd(SubSeq(s, 1, Len(s) - 1)) ELSE s

Trim(s) == TrimStart(TrimEnd(s))

\* the same listing: equal prices, and equal addresses once case and
\* surrounding whitespace are put aside
SameListing(a, b) ==
    a.price = b.price /\ Trim(ToLower(a.address)) = Trim(ToLower(b.address))

\* C14: two records collapse exactly when they are the same listing, so the
\* result holds every listing of the input once.
C14_CollapseUpToCaseAndSpace ==
    (svcOut.op = "deduplicated" /\ svcOut.passes = 1) =>
        /\ \A i, j \in 1..Len(svcOut.list) :
             SameListing(svcOut.list[i], svcOut.list[j]) => i = j
        /\ \A i \in 1..Len(svcOut.given) : \E k \in 1..Len(svcOut.list) :
             SameListing(svcOut.given[i], svcOut.list[k])

-----------------------------------------------------------------------------
(* PropertyService.diversifyResults: claims C15, C16, checked under
   SpecDiversify *)

RangeNames == <<"budget", "affordable", "premium", "luxury">>

SetMin(S) == CHOOSE x \in S : \A y \in S : x <= y
SetMax(S) == CHOOSE x \in S : \A y \in S : x >= y

\* the four price ranges; rangeSize = (max - min) / 4 need not be whole, so
\* the bounds are kept multiplied by 4
createPriceRanges(properties) ==
    LET prices == {properties[i].price : i \in 1..Len(properties)}
        min == SetMin(prices)
        max == SetMax(prices)
    IN  [k \in 1..4 |->
            [range |-> RangeNames[k],
             min4 |-> 4 * min + (k - 1) * (max - min),
             max4 |-> IF k = 4 THEN 4 * max ELSE 4 * min + k * (max - min)]]

\* p.price >= range.min && p.price <= range.max
InRange(p, range) == 4 * p.price >= range.min4 /\ 4 * p.price <= range.max4

\* priceRanges.find(...)?.range: the first range that holds the price
RangeOf(p, priceRanges) ==
    LET holding == {k \in 1..4 : InRange(p, priceRanges[k])}
    IN  IF holding = {} THEN "undefined" ELSE priceRanges[SetMin(holding)].range

\* the selectors return the position of the chosen record in remaining,
\* 0 for null
selectFromUnrepresentedPriceRange(remaining, selected, priceRanges) ==
    LET selectedRanges == {RangeOf(selected[i], priceRanges) : i \in 1..Len(selected)}
        Candidates(k) == {i \in 1..Len(remaining) : InRange(remaining[i], priceRanges[k])}
        open == {k \in 1..4 : /\ priceRanges[k].range \notin selectedRanges
                              /\ Candidates(k) # {}}
    IN  IF open = {} THEN 0 ELSE SetMin(Candidates(SetMin(open)))

selectDifferentPropertyType(remaining, selected) ==
    LET selectedTypes == {selected[i].propertyType : i \in 1..Len(selected)}
        fresh == {i \in 1..Len(remaining) : remaining[i].propertyType \notin selectedTypes}
    IN  IF fresh = {} THEN 0 ELSE SetMin(fresh)

selectDifferentBedroomCount(remaining, selected) ==
    LET selectedBedrooms == {selected[i].bedrooms : i \in 1..Len(selected)}
        fresh == {i \in 1..Len(remaining) : remaining[i].bedrooms \notin selectedBedrooms}
    IN  IF fresh = {} THEN 0 ELSE SetMin(fresh)

\* a loop that runs once more than the cap allows
LoopContinuesInclusive(diversified, remaining, maxResults) ==
    Len(diversified) <= maxResults /\ Len(remaining) > 0

\* the condition of the while loop
LoopContinues(diversified, remaining, maxResults) ==
    Len(diversified) < maxResults /\ Len(remaining) > 0

\* one pass of the loop body: the position of nextProperty in remaining
NextProperty(diversified, remaining, c, priceRanges) ==
    LET byPrice == IF Len(diversified) < 5
                   THEN selectFromUnrepresentedPriceRange(remaining, diversified, priceRanges)
                   ELSE 0
        byType == IF byPrice = 0 /\ c.propertyType = "any"
                  THEN selectDifferentPropertyType(remaining, diversified)
                  ELSE byPrice
        byBedrooms == IF byType = 0
                      THEN selectDifferentBedroomCount(remaining, diversified)
                      ELSE byType
    IN  IF byBedrooms = 0 THEN 1 ELSE byBedrooms

RECURSIVE DiversifyLoop(_, _, _, _, _)
DiversifyLoop(diversified, remaining, c, maxResults, priceRanges) ==
    IF LoopContinues(diversified, remaining, maxResults)
    THEN LET index == NextProperty(diversified, remaining, c, priceRanges)
         IN  DiversifyLoop(Append(diversified, remaining[index]),
                           SubSeq(remaining, 1, index - 1)
                               \o SubSeq(remaining, index + 1, Len(remaining)),
                           c, maxResults, priceRanges)
    ELSE diversified

diversifyResults(properties, c, maxResults) ==
    IF Len(properties) <= maxResults THEN properties
    ELSE DiversifyLoop(<<>>, properties, c, maxResults, createPriceRanges(properties))

\* the longest ranked list handed to diversifyResults, and the largest cap
MaxRanked == 5
MaxResults == 4

\* listings at the lowest price, on the first quartile boundary, inside the
\* second and third quartiles and at the highest price
DivProperties ==
    {[listing EXCEPT !.price = 100000, !.propertyType = "house", !.bedrooms = 2],
     [listing EXCEPT !.price = 200000, !.propertyType = "condo", !.bedrooms = 3],
     [listing EXCEPT !.price = 250000, !.propertyType = "house", !.bedrooms = 3],
     [listing EXCEPT !.price = 350000, !.propertyType = "townhouse", !.bedrooms = 4],
     [listing EXCEPT !.price = 500000, !.propertyType = "condo", !.bedrooms = 2]}

\* a ranked list: the scores fall from one record to the next
Ranked(properties) ==
    [i \in 1..Len(properties) |-> WithScore(properties[i], Num(95 - 5 * i))]

InitDiversify ==
    /\ InitService([op : {"diversify"}, properties : SeqsUpTo(DivProperties, MaxRanked),
                    criteria : {critA, critD}, maxResults : 0..MaxResults])
    /\ now = 0

\* a caller diversifies the given ranked list
DiversifyResults ==
    /\ svcIn.op = "diversify"
    /\ svcOut = NoSvc
    /\ svcOut' = [op |-> "diversified", given |-> Ranked(svcIn.properties),
                  list |-> diversifyResults(Ranked(svcIn.properties), svcIn.criteria,
                                            svcIn.maxResults)]
    /\ UNCHANGED <<config, cache, now, calls, lastCall, tracked, started, lastWrite, svcIn>>

NextDiversify == DiversifyResults

SpecDiversify == InitDiversify /\ [][NextDiversify]_vars

\* C15: the result has at most maxResults records, and as many as the input
\* when the input has at most maxResults.
C15_AtMostMaxResults ==
    svcOut.op = "diversified" =>
        /\ Len(svcOut.list) <= svcIn.maxResults
        /\ Len(svcOut.given) <= svcIn.maxResults => Len(svcOut.list) = Len(svcOut.given)

\* a list cut down by the loop, after the price ranges ran out of candidates
C15_Witness ==
    /\ svcOut.op = "diversified"
    /\ Len(svcOut.given) > svcIn.maxResults
    /\ Len(svcOut.list) = svcIn.maxResults
    /\ svcIn.maxResults >= 3
    /\ Cardinality({svcOut.given[i].price : i \in 1..Len(svcOut.given)}) = 2

\* the quartile of a record of the list
Quartile(p, properties) == RangeOf(p, createPriceRanges(properties))

\* C16: when the list is longer than maxResults >= 4 and has a record in
\* every price quartile, the first four records of the result lie in four
\* different quartiles.
C16_FirstFourCoverQuartiles ==
    (/\ svcOut.op = "diversified"
     /\ svcIn.maxResults >= 4
     /\ Len(svcOut.given) > svcIn.maxResults
     /\ {Quartile(svcOut.given[i], svcOut.given) : i \in 1..Len(svcOut.given)}
            = Range(RangeNames)) =>
        {Quartile(svcOut.list[i], svcOut.given) : i \in 1..4} = Range(RangeNames)

-----------------------------------------------------------------------------
(* rankProperties' order: claim C17, checked under SpecScore *)

\* JavaScript's > and === on two scores; every comparison with NaN is false
ScoreGreater(a, b) ==
    \/ a.kind = "num" /\ b.kind = "num" /\ a.v > b.v
    \/ a.kind = "num" /\ b.kind = "-Infinity"

ScoreEqual(a, b) == a.kind # "NaN" /\ a = b

\* C17: the ranked list is the input, each record with its score, reordered
\* so that of two neighbours the first has the higher score, or the same
\* score and a price that is not higher.
C17_RankedByScoreThenPrice ==
    svcOut.op = "ranked" =>
        /\ svcOut.list \in
               Orders([i \in 1..Len(svcIn.properties) |->
                          WithScore(svcIn.properties[i],
                                    calculateScore(svcIn.properties[i], svcIn.criteria, now))])
        /\ \A i \in 1..(Len(svcOut.list) - 1) :
               LET a == svcOut.list[i]
                   b == svcOut.list[i + 1]
               IN  \/ ScoreGreater(a.score, b.score)
                   \/ ScoreEqual(a.score, b.score) /\ a.price <= b.price

-----------------------------------------------------------------------------
(* calculateScore evaluated twice: claim C19, checked under SpecEvaluate *)

\* the wall-clock instants of an evaluation: the listing's first day, the
\* day after, and days in the 30..60 and over-60 steps of the freshness score
EvaluationInstants == {0, DAY, 45 * DAY, 90 * DAY}

InitEvaluate ==
    InitService([op : {"score"}, property : ScoreProperties, criteria : ScoreCriteria])

\* calculateScore runs on the property and the criteria, reading Date.now()
CalculateScore ==
    /\ svcIn.op = "score"
    /\ svcOut = NoSvc
    /\ svcOut' = [op |-> "scored", at |-> <<now>>,
                  scores |-> <<calculateScore(svcIn.property, svcIn.criteria, now)>>]
    /\ UNCHANGED <<config, cache, now, calls, lastCall, tracked, started, lastWrite, svcIn>>

\* the wall clock moves on between two evaluations
Wait(t) ==
    /\ svcOut.op = "scored"
    /\ Len(svcOut.scores) = 1
    /\ t > now
    /\ now' = t
    /\ UNCHANGED <<config, cache, calls, lastCall, tracked, started, lastWrite, svcIn, svcOut>>

\* calculateScore runs again on the same property and criteria
CalculateScoreAgain ==
    /\ svcOut.op = "scored"
    /\ Len(svcOut.scores) = 1
    /\ svcOut' = [op |-> "scored", at |-> Append(svcOut.at, now),
                  scores |-> Append(svcOut.scores,
                                    calculateScore(svcIn.property, svcIn.criteria, now))]
    /\ UNCHANGED <<config, cache, now, calls, lastCall, tracked, started, lastWrite, svcIn>>

NextEvaluate ==
    \/ CalculateScore
    \/ \E t \in EvaluationInstants : Wait(t)
    \/ CalculateScoreAgain

SpecEvaluate == InitEvaluate /\ [][NextEvaluate]_vars

\* C19: two evaluations on the same property and criteria return the same
\* score, whatever the wall-clock time of each.
C19_SameScoreAtAnyTime ==
    (svcOut.op = "scored" /\ Len(svcOut.scores) = 2) =>
        svcOut.scores[1] = svcOut.scores[2]

-----------------------------------------------------------------------------
(* PropertyService.aggregateAndProcess: claim C20, checked under
   SpecProcess *)

\* a filter on the price bounds alone
filterByPrice(properties, c) ==
    LET Keep(p) ==
            /\ ~(Truthy(c.minPrice) /\ p.price < c.minPrice)
            /\ ~(Truthy(c.maxPrice) /\ p.price > c.maxPrice)
    IN  Filter(properties, Keep)

filterProperties(properties, c) ==
    LET Keep(p) ==
            /\ ~(Truthy(c.minPrice) /\ p.price < c.minPrice)
            /\ ~(Truthy(c.maxPrice) /\ p.price > c.maxPrice)
            /\ ~(Truthy(c.bedrooms) /\ p.bedrooms < c.bedrooms)
            /\ ~(Truthy(c.bathrooms) /\ p.bathrooms < c.bathrooms)
            /\ ~(c.propertyType # "any" /\ p.propertyType # c.propertyType)
    IN  Filter(properties, Keep)

\* the amenities named by generateRecommendations (no garage here)
recommendedFeatures == <<s_pool, s_gym, s_concierge, s_doorman, s_rooftop>>

\* the recommendation strings, each kept as its kind and the values put
\* into its text
generateRecommendations(p, c, clock) ==
    LET avg == IF p.listingType = "rent" THEN 2 ELSE 150
        value == IF Truthy(p.squareFootage) /\ 10 * p.price < 9 * avg * p.squareFootage
                 THEN <<[kind |-> "value", text |-> <<>>]>> ELSE <<>>
        size == IF Truthy(c.bedrooms) /\ p.bedrooms > c.bedrooms
                THEN <<[kind |-> "bedroom", text |-> <<>>]>> ELSE <<>>
        Premium(f) == \E i \in 1..Len(recommendedFeatures) :
                          Includes(ToLower(f), recommendedFeatures[i])
        amenities == Filter(p.features, Premium)
        premium == IF Len(amenities) > 0
                   THEN <<[kind |-> "amenities",
                           text |-> Join(SubSeq(amenities, 1, Min2(2, Len(amenities))),
                                         s_comma \o s_space)]>>
                   ELSE <<>>
        fresh == IF clock - p.dateAdded < 3 * DAY
                 THEN <<[kind |-> "recent", text |-> <<>>]>> ELSE <<>>
        savings == c.maxPrice - p.price
        monthly == IF p.listingType = "rent" THEN savings ELSE (savings + 180) \div 360
        budget == IF Truthy(c.maxPrice) /\ 100 * p.price < 85 * c.maxPrice
                  THEN <<[kind |-> IF monthly > 0 THEN "save" ELSE "within budget",
                          text |-> IF monthly > 0 THEN NumToStr(monthly) ELSE <<>>]>>
                  ELSE <<>>
        all == value \o size \o premium \o fresh \o budget
    IN  SubSeq(all, 1, Min2(3, Len(all)))

RECURSIVE SumSeq(_)
SumSeq(s) == IF s = <<>> THEN 0 ELSE Head(s) + SumSeq(Tail(s))

RECURSIVE SortNumbers(_)
SortNumbers(s) ==
    IF s = <<>> THEN <<>>
    ELSE LET least == SetMin(Range(s))
             at == SetMin({i \in 1..Len(s) : s[i] = least})
         IN  <<least>> \o SortNumbers(SubSeq(s, 1, at - 1) \o SubSeq(s, at + 1, Len(s)))

\* the comparable-market block of a property among allProperties; {} is the
\* record with no field but comparable
generateMarketInsights(property, allProperties) ==
    LET Similar(p) == /\ p.propertyType = property.propertyType
                      /\ Abs(p.bedrooms - property.bedrooms) <= 1
        similarProperties == Filter(allProperties, Similar)
        n == Len(similarProperties)
        prices == SortNumbers([i \in 1..n |-> similarProperties[i].price])
        below == Cardinality({i \in 1..n : prices[i] <= property.price})
    IN  IF n < 2 THEN [comparable |-> FALSE]
        ELSE [comparable |-> TRUE,
              averagePrice |-> (2 * SumSeq(prices) + n) \div (2 * n),
              medianPrice |-> prices[(n \div 2) + 1],
              pricePercentile |-> (200 * below + n) \div (2 * n),
              totalComparables |-> n,
              pricePosition |-> IF 4 * below < n THEN "Great Deal"
                                ELSE IF 2 * below < n THEN "Good Value"
                                ELSE IF 4 * below < 3 * n THEN "Market Rate"
                                ELSE "Premium"]

\* {...property, recommendations, marketInsights}
WithAnnotations(p, recommendations, marketInsights) ==
    [id |-> p.id, address |-> p.address, zipCode |-> p.zipCode,
     listingType |-> p.listingType, price |-> p.price, bedrooms |-> p.bedrooms,
     bathrooms |-> p.bathrooms, squareFootage |-> p.squareFootage,
     propertyType |-> p.propertyType, features |-> p.features,
     source |-> p.source, dateAdded |-> p.dateAdded, score |-> p.score,
     recommendations |-> recommendations, marketInsights |-> marketInsights]

\* the comparables of every property are looked up in the list passed in
addSmartRecommendations(properties, c, clock) ==
    [i \in 1..Len(properties) |->
        WithAnnotations(properties[i],
                        generateRecommendations(properties[i], c, clock),
                        generateMarketInsights(properties[i], properties))]

\* the cap aggregateAndProcess passes to diversifyResults
MAX_DIVERSIFIED == 15

\* the lists that enter diversification: filtered, deduplicated, ranked
scoredSets(properties, c, clock) ==
    rankProperties(deduplicateProperties(filterProperties(properties, c)), c, clock)

\* the possible results: one for every order rankProperties may return
aggregateAndProcess(properties, c, clock) ==
    {addSmartRecommendations(diversifyResults(ranked, c, MAX_DIVERSIFIED), c, clock) :
        ranked \in scoredSets(properties, c, clock)}

\* n listings of one unit type and bedroom count at rising prices
LongList(n) == [i \in 1..n |-> [listing EXCEPT !.price = 100000 + 10000 * i]]

\* short lists, and lists at and over the diversification cap
ProcessInputs ==
    SeqsUpTo(ScoreProperties, MaxProps)
        \cup {LongList(MAX_DIVERSIFIED + k) : k \in 0..MaxProps}

InitProcess ==
    InitService([op : {"process"}, properties : ProcessInputs, criteria : {critA, critD}])

\* a caller runs the pipeline on the given list
AggregateAndProcess ==
    /\ svcIn.op = "process"
    /\ svcOut = NoSvc
    /\ \E result \in aggregateAndProcess(svcIn.properties, svcIn.criteria, now) :
         svcOut' = [op |-> "processed", list |-> result]
    /\ UNCHANGED <<config, cache, now, calls, lastCall, tracked, started, lastWrite, svcIn>>

NextProcess == AggregateAndProcess

SpecProcess == InitProcess /\ [][NextProcess]_vars

\* C20: the comparable-market block of every returned property is the one
\* computed over the scored set that entered diversification.
C20_ComparablesFromScoredSet ==
    svcOut.op = "processed" =>
        \E scored \in scoredSets(svcIn.properties, svcIn.criteria, now) :
            \A i \in 1..Len(svcOut.list) :
                svcOut.list[i].marketInsights
                    = generateMarketInsights(svcOut.list[i], scored)

-----------------------------------------------------------------------------
(* The fan-out under every completion order: claim C18, checked under
   SpecOrder *)

\* the calls that may be in flight together
MaxOrderCalls == 2

\* both providers are configured, so every call fans out to two provider calls
OrderConfigs == {cf \in Configs : cf.apifyToken /\ cf.zillowKey /\ ~cf.useMockData}

InitOrder == InitWith(OrderConfigs)

\* the clock stands still
NextOrder ==
    \/ \E i \in Callers : started < MaxOrderCalls /\ Search(i, critA)
    \/ \E i \in Callers, ok \in BOOLEAN, props \in Responses : SettleZillow(i, ok, props)
    \/ \E i \in Callers, ok \in BOOLEAN, items \in Responses : SettleApify(i, ok, items)
    \/ \E i \in Callers : Continue(i)

SpecOrder == InitOrder /\ [][NextOrder]_vars

\* a fan-out whose provider calls have all completed
Settled(call) ==
    /\ call.pc = "awaiting"
    /\ call.apify.st \notin {"none", "pending"}
    /\ call.zillow.st \notin {"none", "pending"}

\* the lists searchProperties can return from here (lines 521-552), none
\* when it throws, and what aggregateAndProcess makes of them
FinalLists(call) ==
    LET results == Merged(call)
        returned == IF results # <<>> THEN {results}
                    ELSE IF shouldUseStrictMode THEN {}
                    ELSE {generateMockProperties(call.criteria, "MockAPI", rnd, now) :
                             rnd \in MockDraws}
    IN  UNION {aggregateAndProcess(r, call.criteria, now) : r \in returned}

\* C18: two calls that got the same answers from the providers, at the same
\* clock, end with the same final list, whichever provider call completed
\* first in each.
C18_SameListForEveryOrder ==
    \A i, j \in Callers :
        (/\ Settled(calls[i])
         /\ Settled(calls[j])
         /\ calls[i].criteria = calls[j].criteria
         /\ calls[i].apify = calls[j].apify
         /\ calls[i].zillow = calls[j].zillow) =>
            FinalLists(calls[i]) = FinalLists(calls[j])

\* the same two non-empty answers, Apify's first in one call and Zillow's
\* first in the other
C18_Witness ==
    /\ Settled(calls[1])
    /\ Settled(calls[2])
    /\ calls[1].apify = calls[2].apify
    /\ calls[1].zillow = calls[2].zillow
    /\ calls[1].apify.st = "fulfilled" /\ calls[1].apify.val # <<>>
    /\ calls[1].zillow.st = "fulfilled" /\ calls[1].zillow.val # <<>>
    /\ calls[1].order = <<"apify", "zillow">>
    /\ calls[2].order = <<"zillow", "apify">>
    /\ FinalLists(calls[1]) # {}

-----------------------------------------------------------------------------
(* The lists the cache shares with its callers: claim C11, checked under
   SpecShare *)

\* what the caller does to a list it holds, between the write and a hit
MaxMutations == 2

\* the heap: objects holds the Property objects, arrays the arrays of
\* references to them; an array is named by its position in arrays
NoHeap ==
    [op |-> "heap", objects |-> <<>>, arrays |-> <<>>, passed |-> 0, returned |-> {},
     written |-> <<>>, mutations |-> 0, processed |-> FALSE]

\* the records an array holds
Deref(heap, ref) ==
    [k \in 1..Len(heap.arrays[ref]) |-> heap.objects[heap.arrays[ref][k]]]

\* list.pop(), list.reverse(), list[0].price = 1
MutationKinds == {"pop", "reverse", "price"}

Mutated(heap, ref, kind) ==
    LET a == heap.arrays[ref]
    IN  IF kind = "pop"
        THEN [heap EXCEPT !.arrays[ref] = SubSeq(a, 1, Len(a) - 1)]
        ELSE IF kind = "reverse"
        THEN [heap EXCEPT !.arrays[ref] = [k \in 1..Len(a) |-> a[Len(a) + 1 - k]]]
        ELSE [heap EXCEPT !.objects[a[1]].price = 1]

InitShare ==
    /\ InitService([op : {"share"},
                    properties : SeqsUpTo(ScoreProperties, MaxProps) \ {<<>>},
                    criteria : {critA}])
    /\ now = 0

\* a search that misses: the results are collected in a new array, line 543
\* hands it to addToCache, which stores [...data], a new array of the same
\* objects, and the caller gets the results array
SearchMiss ==
    /\ svcIn.op = "share"
    /\ svcOut = NoSvc
    /\ LET n == Len(svcIn.properties)
           key == generateCacheKey(svcIn.criteria)
       IN  /\ ~getFromCache(cache, key, now).hit
           /\ cache' = addToCache(cache, key, 2, now)
           /\ svcOut' = [NoHeap EXCEPT
                           !.objects = svcIn.properties,
                           !.arrays = <<[k \in 1..n |-> k], [k \in 1..n |-> k]>>,
                           !.passed = 1,
                           !.written = svcIn.properties]
    /\ UNCHANGED <<config, now, calls, lastCall, tracked, started, lastWrite, svcIn>>

\* a later search that hits: lines 475-479 return entry.data
SearchHit ==
    /\ svcOut.op = "heap"
    /\ LET read == getFromCache(cache, generateCacheKey(svcIn.criteria), now)
       IN  /\ read.hit
           /\ cache' = read.cache
           /\ svcOut' = [svcOut EXCEPT !.returned = @ \cup {read.data}]
    /\ UNCHANGED <<config, now, calls, lastCall, tracked, started, lastWrite, svcIn>>

\* the caller changes the list it passed to the write
MutatePassed(kind) ==
    /\ svcOut.op = "heap"
    /\ svcOut.mutations < MaxMutations
    /\ Len(svcOut.arrays[svcOut.passed]) > 0
    /\ svcOut' = [Mutated(svcOut, svcOut.passed, kind) EXCEPT !.mutations = @ + 1]
    /\ UNCHANGED <<config, cache, now, calls, lastCall, tracked, started, lastWrite, svcIn>>

\* the caller changes a list an earlier hit returned
MutateReturned(ref, kind) ==
    /\ svcOut.op = "heap"
    /\ svcOut.mutations < MaxMutations
    /\ ref \in svcOut.returned
    /\ Len(svcOut.arrays[ref]) > 0
    /\ svcOut' = [Mutated(svcOut, ref, kind) EXCEPT !.mutations = @ + 1]
    /\ UNCHANGED <<config, cache, now, calls, lastCall, tracked, started, lastWrite, svcIn>>

\* the caller runs aggregateAndProcess on a returned list: every stage
\* (filter, uniqBy, map, orderBy, [...properties], map) builds new arrays and
\* new objects, so the heap the cache shares is left as it is
ProcessReturned(ref) ==
    /\ svcOut.op = "heap"
    /\ ~svcOut.processed
    /\ ref \in svcOut.returned
    /\ aggregateAndProcess(Deref(svcOut, ref), svcIn.criteria, now) # {}
    /\ svcOut' = [svcOut EXCEPT !.processed = TRUE]
    /\ UNCHANGED <<config, cache, now, calls, lastCall, tracked, started, lastWrite, svcIn>>

NextShare ==
    \/ SearchMiss
    \/ SearchHit
    \/ \E kind \in MutationKinds : MutatePassed(kind)
    \/ \E ref \in {1, 2}, kind \in MutationKinds : MutateReturned(ref, kind)
    \/ \E ref \in {1, 2} : ProcessReturned(ref)

SpecShare == InitShare /\ [][NextShare]_vars

\* C11: whatever the caller did since the write, the list a hit returns is
\* the list as it was written.
C11_HitReturnsListAsWritten ==
    svcOut.op = "heap" =>
        LET read == getFromCache(cache, generateCacheKey(svcIn.criteria), now)
        IN  read.hit => Deref(svcOut, read.data) = svcOut.written

-----------------------------------------------------------------------------
(* detectPropertyTypeFromScrapedData on its own: claim C21, checked under
   SpecDetect *)

\* provider records with no type field and with type fields of every branch,
\* at addresses with and without a unit indicator
DetectItems ==
    {[rawPlain EXCEPT !.typeStr = ty, !.address = ad] :
        ty \in {<<>>, s_Apartments, s_Single_family_residence, s_Condos, s_townhome,
                s_Garden},
        ad \in {s_12_Main_St, s_12_Main_St \o s_C_Unit_ \o <<50>>,
                s_12_Main_St \o s_space \o s_hash \o <<50>>}}

InitDetect == InitService([op : {"detect"}, item : DetectItems, requestedType : PropertyType])

\* an adapter maps the unit type of one provider record
DetectPropertyType ==
    /\ svcIn.op = "detect"
    /\ svcOut = NoSvc
    /\ svcOut' = [op |-> "detected",
                  type |-> detectPropertyTypeFromScrapedData(svcIn.item, svcIn.requestedType)]
    /\ UNCHANGED <<config, cache, now, calls, lastCall, tracked, started, lastWrite, svcIn>>

NextDetect == DetectPropertyType

SpecDetect == InitDetect /\ [][NextDetect]_vars

\* a record with no type field and no unit indicator in its address
Ambiguous(item) ==
    /\ item.typeStr = <<>>
    /\ ~Includes(ToLower(item.address), s_unit_)
    /\ ~Includes(ToLower(item.address), s_apt_)
    /\ ~Includes(item.address, s_hash)

\* C21: whatever unit type was requested, an ambiguous record is mapped to
\* house.
C21_AmbiguousIsHouse ==
    (svcOut.op = "detected" /\ Ambiguous(svcIn.item)) => svcOut.type = "house"

-----------------------------------------------------------------------------
(* generateMockProperties on its own: claim C22, checked under SpecMock *)

\* criteria with and without price bounds and room minimums, for any unit
\* type and for a pinned one
MockCriteria ==
    {[c EXCEPT !.propertyType = ty, !.bathrooms = ba, !.listingType = lt] :
        c \in ScoreCriteria, ty \in {"any", "apartment"}, ba \in {Undefined, 2},
        lt \in {"buy", "rent"}}

\* runs in which the requested type is met, and one of the 5% in which it is not
GeneratorDraws == MockDraws \cup {Draw(3, 0, 60)}

InitMock ==
    /\ InitService([op : {"mock"}, criteria : MockCriteria, rnd : GeneratorDraws])
    /\ now = 0

\* the generator runs for the given criteria
GenerateMockProperties ==
    /\ svcIn.op = "mock"
    /\ svcOut = NoSvc
    /\ svcOut' = [op |-> "generated",
                  list |-> generateMockProperties(svcIn.criteria, "MockAPI", svcIn.rnd, now)]
    /\ UNCHANGED <<config, cache, now, calls, lastCall, tracked, started, lastWrite, svcIn>>

NextMock == GenerateMockProperties

SpecMock == InitMock /\ [][NextMock]_vars

\* C22: every generated listing has its price within the given bounds, at
\* least the requested bedrooms and bathrooms, and the pinned unit type.
C22_MockHonoursBounds ==
    svcOut.op = "generated" =>
        \A i \in 1..Len(svcOut.list) :
            LET p == svcOut.list[i]
                c == svcIn.criteria
            IN  /\ Truthy(c.minPrice) => p.price >= c.minPrice
                /\ Truthy(c.maxPrice) => p.price <= c.maxPrice
                /\ Truthy(c.bedrooms) => p.bedrooms >= c.bedrooms
                /\ Truthy(c.bathrooms) => p.bathrooms >= c.bathrooms
                /\ c.propertyType # "any" => p.propertyType = c.propertyType

-----------------------------------------------------------------------------
(* The criteria object handed to searchProperties: claim C23, checked under
   SpecCriteria *)

\* criteria whose feature list is in sorted order already (critA, critD) and
\* one whose list is not (critB)
SearchedCriteria == {critA, critB, critD}

NextCriteria ==
    \/ \E i \in Callers, c \in SearchedCriteria : started < MaxCalls /\ Search(i, c)
    \/ \E i \in Callers, ok \in BOOLEAN, props \in Responses : SettleZillow(i, ok, props)
    \/ \E i \in Callers, ok \in BOOLEAN, items \in Responses : SettleApify(i, ok, items)
    \/ \E i \in Callers : Continue(i)
    \/ \E t \in Instants : Tick(t)

SpecCriteria == Init /\ [][NextCriteria]_vars

\* the caller's criteria object as the call of caller i holds it after a step
CriteriaAfter(i) == IF calls'[i].pc = "idle" THEN lastCall'.criteria ELSE calls'[i].criteria

\* C23: the criteria object a search was called with has, after the call
\* began, every field as the caller passed it, the order of its feature
\* list included.
C23_CriteriaUnchanged ==
    [][\A i \in Callers, c \in SearchedCriteria : Search(i, c) => CriteriaAfter(i) = c]_vars

-----------------------------------------------------------------------------
(* calculateFeatureScore's match part: claim C24, checked under
   SpecFeature *)

s_Heated_pool == <<72, 101, 97, 116, 101, 100, 32, 112, 111, 111, 108>>  \* "Heated pool"

\* listings with no feature, one feature, two features that name the same
\* amenity, and two features that name different ones
FeatureProperties ==
    {[listing EXCEPT !.price = pr, !.features = fs] :
        pr \in ScorePrices,
        fs \in {<<>>, <<s_Pool>>, <<s_Pool, s_Heated_pool>>, <<s_Gym, s_Garage>>}}

FeatureCriteria ==
    {[critA EXCEPT !.features = fs] : fs \in {<<>>, <<s_pool>>, <<s_Pool, s_gym>>}}

InitFeature ==
    InitService([op : {"feature"}, property : FeatureProperties, criteria : FeatureCriteria])

\* the score evaluates the feature match of the property
CalculateFeatureScore ==
    /\ svcIn.op = "feature"
    /\ svcOut = NoSvc
    /\ svcOut' = [op |-> "featureScore",
                  base |-> BaseFeatureFraction(svcIn.property, svcIn.criteria)]
    /\ UNCHANGED <<config, cache, now, calls, lastCall, tracked, started, lastWrite, svcIn>>

NextFeature == CalculateFeatureScore

SpecFeature == InitFeature /\ [][NextFeature]_vars

\* the requested features that some feature of the property matches
MatchedRequests(p, c) ==
    {k \in 1..Len(c.features) :
        \E i \in 1..Len(p.features) :
            \/ Includes(ToLower(p.features[i]), ToLower(c.features[k]))
            \/ Includes(ToLower(c.features[k]), ToLower(p.features[i]))}

\* C24: the match part is 15 times the fraction of the requested features
\* that the property matches, and so lies between 0 and 15.
C24_FeatureMatchIsFraction ==
    svcOut.op = "featureScore" =>
        LET requested == Len(svcIn.criteria.features)
            matched == Cardinality(MatchedRequests(svcIn.property, svcIn.criteria))
        IN  /\ svcOut.base.num >= 0
            /\ svcOut.base.num <= 15 * svcOut.base.den
            /\ svcOut.base.num * Max2(requested, 1) = 15 * matched * svcOut.base.den

-----------------------------------------------------------------------------
(* The loop of diversifyResults, one iteration at a time: claims C25, C30,
   checked under SpecLoop *)

\* a splice that removes nothing
SplicedNothing(remaining, index) == remaining

\* remaining.splice(index, 1)
Spliced(remaining, index) ==
    SubSeq(remaining, 1, index - 1) \o SubSeq(remaining, index + 1, Len(remaining))

\* the lists of up to n different elements of S
DistinctSeqsUpTo(S, n) ==
    {s \in SeqsUpTo(S, n) : \A i, j \in 1..Len(s) : s[i] = s[j] => i = j}

InitLoop ==
    /\ InitService([op : {"loop"}, properties : DistinctSeqsUpTo(DivProperties, MaxRanked),
                    criteria : {critA, critD}, maxResults : 0..MaxResults])
    /\ now = 0

\* lines 24-30: the early return, or the copies the loop works on; given is
\* the caller's array
DiversifyEnter ==
    /\ svcIn.op = "loop"
    /\ svcOut = NoSvc
    /\ LET properties == Ranked(svcIn.properties)
       IN  svcOut' = IF Len(properties) <= svcIn.maxResults
                     THEN [op |-> "returned", given |-> properties, list |-> properties,
                           remaining |-> <<>>, iterations |-> 0]
                     ELSE [op |-> "looping", given |-> properties, list |-> <<>>,
                           remaining |-> properties, iterations |-> 0]
    /\ UNCHANGED <<config, cache, now, calls, lastCall, tracked, started, lastWrite, svcIn>>

\* lines 33-63: one pass of the loop
DiversifyIterate ==
    /\ svcOut.op = "looping"
    /\ LoopContinues(svcOut.list, svcOut.remaining, svcIn.maxResults)
    /\ LET index == NextProperty(svcOut.list, svcOut.remaining, svcIn.criteria,
                                 createPriceRanges(svcOut.given))
       IN  svcOut' = [svcOut EXCEPT
                        !.list = Append(@, svcOut.remaining[index]),
                        !.remaining = Spliced(@, index),
                        !.iterations = @ + 1]
    /\ UNCHANGED <<config, cache, now, calls, lastCall, tracked, started, lastWrite, svcIn>>

\* line 65: the loop is left and diversified is returned
DiversifyReturn ==
    /\ svcOut.op = "looping"
    /\ ~LoopContinues(svcOut.list, svcOut.remaining, svcIn.maxResults)
    /\ svcOut' = [svcOut EXCEPT !.op = "returned"]
    /\ UNCHANGED <<config, cache, now, calls, lastCall, tracked, started, lastWrite, svcIn>>

NextLoop == DiversifyEnter \/ DiversifyIterate \/ DiversifyReturn

SpecLoop == InitLoop /\ [][NextLoop]_vars

\* the first record of pool for which Fresh holds, 0 when there is none
FirstInPool(pool, Fresh(_)) ==
    LET fresh == {i \in 1..Len(pool) : Fresh(pool[i])}
    IN  IF fresh = {} THEN 0 ELSE SetMin(fresh)

\* the pick the rules of C25 prescribe, as a position in the pool
PrescribedPick(chosen, pool, c, given) ==
    LET quartiles == {Quartile(chosen[i], given) : i \in 1..Len(chosen)}
        types == {chosen[i].propertyType : i \in 1..Len(chosen)}
        rooms == {chosen[i].bedrooms : i \in 1..Len(chosen)}
        NewQuartile(p) == Quartile(p, given) \notin quartiles
        NewType(p) == p.propertyType \notin types
        NewRooms(p) == p.bedrooms \notin rooms
        byQuartile == IF Len(chosen) < 5 THEN FirstInPool(pool, NewQuartile) ELSE 0
        byType == IF c.propertyType = "any" THEN FirstInPool(pool, NewType) ELSE 0
        byRooms == FirstInPool(pool, NewRooms)
    IN  IF byQuartile # 0 THEN byQuartile
        ELSE IF byType # 0 THEN byType
        ELSE IF byRooms # 0 THEN byRooms
        ELSE 1

\* C25: in every pass of the loop the pool is in falling score order, and
\* the record picked is the first of the pool under the first rule that
\* applies: new price quartile, new unit type, new bedroom count, head.
C25_PicksFirstByPriority ==
    [][DiversifyIterate =>
          /\ \A k \in 1..(Len(svcOut.remaining) - 1) :
                 svcOut.remaining[k].score.v > svcOut.remaining[k + 1].score.v
          /\ svcOut'.list[Len(svcOut'.list)]
                 = svcOut.remaining[PrescribedPick(svcOut.list, svcOut.remaining,
                                                   svcIn.criteria, svcOut.given)]]_vars

\* C30: the result has min(N, |R|) records, all of them records of R and
\* none of them twice; the loop made at most min(N, |R|) passes, and R is as
\* it was.
C30_ExactlyMinRecords ==
    /\ svcOut.op \in {"looping", "returned"} =>
          /\ svcOut.given = Ranked(svcIn.properties)
          /\ svcOut.iterations <= Min2(svcIn.maxResults, Len(svcOut.given))
          /\ \A i \in 1..Len(svcOut.list) : svcOut.list[i] \in Range(svcOut.given)
          /\ \A i, j \in 1..Len(svcOut.list) : svcOut.list[i] = svcOut.list[j] => i = j
    /\ svcOut.op = "returned" =>
          Len(svcOut.list) = Min2(svcIn.maxResults, Len(svcOut.given))

\* a list cut down by several passes of the loop
C30_Witness ==
    /\ svcOut.op = "returned"
    /\ svcOut.iterations >= 3
    /\ Len(svcOut.given) > svcOut.iterations

-----------------------------------------------------------------------------
(* searchApify's wait for the actor run: claim C26, checked under SpecPoll *)

\* the client is configured for Apify, alone or next to Zillow
PollConfigs == {cf \in Configs : cf.apifyToken /\ ~cf.useMockData}

InitPoll == InitWith(PollConfigs)

\* lines 621-626: a status request is answered with a status that is neither
\* SUCCEEDED nor FAILED, and the loop goes on to wait two more seconds; polls
\* is the number of such answers so far, modulo 2
PollApifyRunning(i) ==
    /\ calls[i].pc = "awaiting"
    /\ calls[i].apify.st = "pending"
    /\ calls' = [calls EXCEPT ![i].polls = 1 - @]
    /\ UNCHANGED <<config, cache, now, lastCall, tracked, started, lastWrite, svcIn, svcOut>>

\* an HTTP request of searchZillow is answered or times out
ZillowResponds(i) == \E ok \in BOOLEAN, props \in Responses : SettleZillow(i, ok, props)

\* an HTTP request of searchApify is answered or times out
ApifyResponds(i) ==
    \/ PollApifyRunning(i)
    \/ \E ok \in BOOLEAN, items \in Responses : SettleApify(i, ok, items)

\* one search, at a standing clock
NextPoll ==
    \/ \E i \in Callers : started < MaxCalls /\ Search(i, critA)
    \/ \E i \in Callers : ZillowResponds(i)
    \/ \E i \in Callers : ApifyResponds(i)
    \/ \E i \in Callers : Continue(i)

\* every request is answered in the end, and the code after an await runs
SpecPoll ==
    /\ InitPoll
    /\ [][NextPoll]_vars
    /\ \A i \in Callers :
         /\ WF_vars(ZillowResponds(i))
         /\ WF_vars(ApifyResponds(i))
         /\ WF_vars(Continue(i))

\* C26: every search that fanned out returns or raises in the end.
C26_EverySearchEnds ==
    \A i \in Callers : (calls[i].pc = "awaiting") ~> (calls[i].pc = "idle")

-----------------------------------------------------------------------------
(* calculateScore on two listings that differ in zip code, address and
   provenance only: claim C27, checked under SpecLocation *)

s_90045 == <<57, 48, 48, 52, 53>>  \* "90045"

\* the zip codes of a listing: none, one ending below 20, one ending above
LocationZips == {<<>>, s_90000, s_90045}

\* listings equal in price, features, rooms, listing date, square footage and
\* transaction type
LocationTwins(p) ==
    {[p EXCEPT !.zipCode = z, !.address = a, !.source = s] :
        z \in LocationZips, a \in {s_12_Main_St, s_Oak_Ave}, s \in {"Zillow", "Apify"}}

InitLocation ==
    /\ InitService({[op |-> "scoreTwo", first |-> p, second |-> q, criteria |-> c] :
                       p \in {[listing EXCEPT !.price = pr] : pr \in ScorePrices},
                       q \in UNION {LocationTwins([listing EXCEPT !.price = pr]) :
                                       pr \in ScorePrices},
                       c \in {critA, [critA EXCEPT !.maxPrice = 400000]}})
    /\ svcIn.second \in LocationTwins(svcIn.first)
    /\ now = 0

\* calculateScore runs on each of the two listings under the same criteria
CalculateScoreOfTwo ==
    /\ svcIn.op = "scoreTwo"
    /\ svcOut = NoSvc
    /\ svcOut' = [op |-> "scoredTwo",
                  scores |-> <<calculateScore(svcIn.first, svcIn.criteria, now),
                               calculateScore(svcIn.second, svcIn.criteria, now)>>]
    /\ UNCHANGED <<config, cache, now, calls, lastCall, tracked, started, lastWrite, svcIn>>

NextLocation == CalculateScoreOfTwo

SpecLocation == InitLocation /\ [][NextLocation]_vars

\* C27: two listings equal in price, features, bedroom and bathroom counts,
\* listing date, square footage and transaction type get the same score under
\* the same criteria, whatever their zip code, address or provenance.
C27_ScoreIgnoresLocation ==
    svcOut.op = "scoredTwo" => svcOut.scores[1] = svcOut.scores[2]

-----------------------------------------------------------------------------
(* generateCacheKey on two criteria: claim C28, checked under SpecSeparate *)

\* criteria with each optional field present or absent
SeparateCriteria ==
    {[critA EXCEPT !.city = ci, !.state = st, !.minPrice = lo, !.maxPrice = hi,
                   !.bedrooms = bd, !.bathrooms = ba] :
        ci \in {s_Columbus, s_columbus}, st \in {<<>>, s_OH},
        lo \in {Undefined, 300000}, hi \in {Undefined, 300000},
        bd \in {Undefined, 3}, ba \in {Undefined, 3}}

InitSeparate ==
    /\ InitService([op : {"separate"}, a : SeparateCriteria, b : SeparateCriteria])
    /\ now = 0

\* the key of each of the two criteria is computed
GenerateCacheKeys ==
    /\ svcIn.op = "separate"
    /\ svcOut = NoSvc
    /\ svcOut' = Keys(svcIn.a, svcIn.b)
    /\ UNCHANGED <<config, cache, now, calls, lastCall, tracked, started, lastWrite, svcIn>>

NextSeparate == GenerateCacheKeys

SpecSeparate == InitSeparate /\ [][NextSeparate]_vars

\* criteria up to the letter case of city, state and features and the order
\* of the features
Normalised(c) ==
    [c EXCEPT !.city = ToLower(@), !.state = ToLower(@),
              !.features = SortStrings([k \in 1..Len(@) |-> ToLower(@[k])])]

\* C28: two criteria that differ in the value or the presence of a field,
\* beyond letter case and feature order, never get the same cache key.
C28_DistinctCriteriaDistinctKeys ==
    (svcOut.op = "keys" /\ Normalised(svcIn.a) # Normalised(svcIn.b)) =>
        svcOut.ka # svcOut.kb

-----------------------------------------------------------------------------
(* aggregateAndProcess on lists with rejected, repeated and surplus
   listings: claim C29, checked under SpecPipeline *)

\* listings that differ in price, rooms, unit type and the case of the address
PipelineProperties ==
    {[listing EXCEPT !.price = pr, !.bedrooms = r[1], !.bathrooms = r[2],
                     !.propertyType = r[3], !.address = a] :
        pr \in ScorePrices,
        r \in {<<3, 2, "house">>, <<2, 2, "house">>, <<3, 1, "house">>,
               <<3, 2, "apartment">>},
        a \in {s_12_Main_St, s_12_MAIN_ST}}

\* a respelling of the first listing of LongList, and a listing over critA's
\* maximum price
PipelineExtras ==
    {[listing EXCEPT !.price = 110000, !.address = s_12_MAIN_ST],
     [listing EXCEPT !.price = 900000]}

\* short lists, and lists at and over the cap followed by extras
PipelineInputs ==
    SeqsUpTo(PipelineProperties, MaxProps)
        \cup {LongList(MAX_DIVERSIFIED + k) \o extra :
                 k \in 0..1, extra \in SeqsUpTo(PipelineExtras, MaxProps)}

\* criteria with every bound, with some, and with none
PipelineCriteria ==
    {critA,
     [critA EXCEPT !.minPrice = 200000, !.bathrooms = 2, !.propertyType = "house"],
     [critA EXCEPT !.maxPrice = Undefined, !.bedrooms = Undefined]}

InitPipeline ==
    /\ InitService([op : {"process"}, properties : PipelineInputs,
                    criteria : PipelineCriteria])
    /\ now = 0

NextPipeline == AggregateAndProcess

SpecPipeline == InitPipeline /\ [][NextPipeline]_vars

\* the criteria filter as the claim words it
WithinCriteria(p, c) ==
    /\ Truthy(c.minPrice) => p.price >= c.minPrice
    /\ Truthy(c.maxPrice) => p.price <= c.maxPrice
    /\ Truthy(c.bedrooms) => p.bedrooms >= c.bedrooms
    /\ Truthy(c.bathrooms) => p.bathrooms >= c.bathrooms
    /\ c.propertyType # "any" => p.propertyType = c.propertyType

\* C29: aggregateAndProcess returns at most 15 properties, each within the
\* criteria's price bounds, room minimums and unit type, and no two with the
\* same lowercased address and price.
C29_CappedFilteredDistinct ==
    svcOut.op = "processed" =>
        /\ Len(svcOut.list) <= 15
        /\ \A i \in 1..Len(svcOut.list) : WithinCriteria(svcOut.list[i], svcIn.criteria)
        /\ \A i, j \in 1..Len(svcOut.list) :
               (/\ ToLower(svcOut.list[i].address) = ToLower(svcOut.list[j].address)
                /\ svcOut.list[i].price = svcOut.list[j].price) => i = j

\* a list over the cap with a rejected listing and a repeated one, cut to 15
C29_Witness ==
    /\ svcOut.op = "processed"
    /\ Len(svcOut.list) = 15
    /\ Len(svcIn.properties) > 15
    /\ \E i \in 1..Len(svcIn.properties) :
           ~WithinCriteria(svcIn.properties[i], svcIn.criteria)
    /\ \E i, j \in 1..Len(svcIn.properties) :
           /\ i < j
           /\ ToLower(svcIn.properties[i].address) = ToLower(svcIn.properties[j].address)
           /\ svcIn.properties[i].price = svcIn.properties[j].price

====
